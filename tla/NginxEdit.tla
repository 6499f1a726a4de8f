------------------------------ MODULE NginxEdit ------------------------------
(***************************************************************************)
(* The edit of nginx's configuration (internal/nginx/inject.go): find the  *)
(* server blocks by scanning the text, over comments and quotes, choose    *)
(* one by its server_name, and put the marked block on the line after its  *)
(* opening brace.  The text is scanned as one sequence of tokens, each     *)
(* with the number of its line; "server" stands for the keyword only.      *)
(***************************************************************************)
EXTENDS BlockEdit

\* The words of all lines, with the ends of the lines between them.
Tokens(f) ==
  LET upTo[n \in 0 .. Len(f)] ==
        IF n = 0 THEN <<>>
        ELSE upTo[n - 1] \o [i \in 1 .. Len(f[n].words) + 1 |->
               [line |-> n, tok |-> IF i > Len(f[n].words) THEN "nl" ELSE f[n].words[i]]]
  IN upTo[Len(f)]

\* 0 stands for "not found".
First(S) == IF S = {} THEN 0 ELSE Min(S)

\* The scan that started at from has met a '#' on the line of p.
Commented(s, from, p) ==
  \E h \in from .. p : s[h].tok = "#" /\ s[h].line = s[p].line /\ s[p].tok # "nl"

\* indexServerKeyword
ServerKeyword(s, from) ==
  First({p \in from .. Len(s) : s[p].tok = "server" /\ ~Commented(s, from, p)})

\* indexBraceAfter: the next brace, unless a directive ends before it.
BraceAfter(s, from) ==
  LET p == First({q \in from .. Len(s) : s[q].tok \in {";", "{"} /\ ~Commented(s, from, q)})
  IN IF p # 0 /\ s[p].tok = "{" THEN p ELSE 0

\* One token further: inside a comment or a quotation braces do not count.
ScanStep(state, tok) ==
  IF state.mode = "comment" THEN [state EXCEPT !.mode = IF tok = "nl" THEN "code" ELSE @]
  ELSE IF state.mode = "quote" THEN [state EXCEPT !.mode = IF tok = "quote" THEN "code" ELSE @]
  ELSE [depth |-> state.depth + (IF tok = "{" THEN 1 ELSE 0) - (IF tok = "}" THEN 1 ELSE 0),
        mode |-> CASE tok = "#" -> "comment" [] tok = "quote" -> "quote" [] OTHER -> "code"]

\* matchBrace: the brace that closes the one at open.
MatchBrace(s, open) ==
  LET scan[p \in open - 1 .. Len(s)] ==
        IF p = open - 1 THEN [depth |-> 0, mode |-> "code"] ELSE ScanStep(scan[p - 1], s[p].tok)
  IN First({p \in open .. Len(s) : scan[p].depth = 0})

\* parseServerNames, on one line of a block's body: the words after a
\* server_name that starts the line.  A word with a ';' after it that does
\* not end the line keeps the ';' and is no name.
NamesOnLine(words) ==
  LET hash == First({i \in DOMAIN words : words[i] = "#"})
      said == IF hash = 0 THEN words ELSE SubSeq(words, 1, hash - 1)
      args == IF said # <<>> /\ Last(said) = ";" THEN Front(said) ELSE said
  IN IF said = <<>> \/ said[1] # "server_name" THEN {}
     ELSE {args[i] : i \in {j \in 2 .. Len(args) :
             args[j] # ";" /\ (j < Len(args) => args[j + 1] # ";")}}

ServerNames(s, open, close) ==
  UNION {NamesOnLine(LET on == {p \in open + 1 .. close - 1 : s[p].line = n /\ s[p].tok # "nl"}
                     IN [i \in 1 .. Cardinality(on) |-> s[Min(on) + i - 1].tok]) :
         n \in s[open].line .. s[close].line}

\* findServerBlocks: the search goes on behind the block that was found.
ServerBlocks(s) ==
  LET blocks[from \in 1 .. Len(s) + 1] ==
        LET keyword == ServerKeyword(s, from)
            open == BraceAfter(s, keyword + 1)
            close == MatchBrace(s, open)
        IN IF keyword = 0 THEN <<>>
           ELSE IF open = 0 THEN blocks[keyword + 1]
           ELSE IF close = 0 THEN <<>>
           ELSE <<[open |-> s[open].line, names |-> ServerNames(s, open, close)]>>
                  \o blocks[close + 1]
  IN blocks[1]

\* InjectInclude
NginxInject(f, key, selector) ==
  LET src == Strip(f, key)
      blocks == ServerBlocks(Tokens(src))
      chosen == First({i \in DOMAIN blocks : selector = "" \/ selector \in blocks[i].names})
  IN IF chosen = 0 THEN NoBlockFound
     ELSE InsertAfter(src, blocks[chosen].open,
                      Marked(key, <<Line(FALSE, <<"include", key, ";">>)>>, TRUE))
=============================================================================
