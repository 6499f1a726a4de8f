------------------------------ MODULE BlockEdit ------------------------------
(***************************************************************************)
(* How ip-watch edits the configuration files of caddy, apache and haproxy *)
(* (internal/engine/blockedit.go and the plan of each engine): a block     *)
(* between two marker lines is dropped, then written again after the       *)
(* header of the selected block.                                           *)
(*                                                                         *)
(* A file is a sequence of lines; a line is its words and whether it is    *)
(* indented.  Punctuation that the code looks for is a word of its own.    *)
(***************************************************************************)
EXTENDS Naturals, SequencesExt

\* What inject returns when there is no block to edit.
NoBlockFound == <<>>

Line(indented, words) == [indented |-> indented, words |-> words]
Blank == Line(FALSE, <<>>)
BeginMark(key) == <<"#", ">>>", key>>
EndMark(key) == <<"#", "<<<", key>>

\* The lines of f whose numbers are in S.
LinesAt(f, S) ==
  LET upTo[i \in 0 .. Len(f)] ==
        IF i = 0 THEN <<>> ELSE IF i \in S THEN Append(upTo[i - 1], f[i]) ELSE upTo[i - 1]
  IN upTo[Len(f)]

InsertAfter(f, n, block) == SubSeq(f, 1, n) \o block \o SubSeq(f, n + 1, Len(f))

-----------------------------------------------------------------------------
(* blockedit.go                                                            *)

\* Mutant: the markers of every key open and close the skipped part.
StripAnyKey(f, key) ==
  LET opens(i) == Len(f[i].words) = 3 /\ f[i].words[2] = ">>>"
      closes(i) == Len(f[i].words) = 3 /\ f[i].words[2] = "<<<"
  IN LinesAt(f, {i \in DOMAIN f :
       /\ ~opens(i) /\ ~closes(i)
       /\ \A b \in 1 .. i - 1 : opens(b) => \E e \in b .. i - 1 : closes(e)})

\* stripManaged: marker lines go, and so does what follows an opening one up
\* to the next closing one; to the end of the file if there is none.
Strip(f, key) ==
  LET opens(i) == f[i].words = BeginMark(key)
      closes(i) == f[i].words = EndMark(key)
  IN LinesAt(f, {i \in DOMAIN f :
       /\ ~opens(i) /\ ~closes(i)
       /\ \A b \in 1 .. i - 1 : opens(b) => \E e \in b .. i - 1 : closes(e)})

\* The block that is written, every line with the same indentation added.
Marked(key, payload, indented) ==
  [n \in 1 .. Len(payload) + 2 |->
     IF n = 1 THEN Line(indented, BeginMark(key))
     ELSE IF n = Len(payload) + 2 THEN Line(indented, EndMark(key))
     ELSE Line(indented \/ payload[n - 1].indented, payload[n - 1].words)]

\* Mutant: the block written by an earlier apply stays.
InjectAgain(f, key, payload, headers) ==
  LET at == {i \in DOMAIN f : f[i] \in headers}
  IN IF at = {} THEN NoBlockFound ELSE InsertAfter(f, Min(at), Marked(key, payload, TRUE))

\* headers: the lines of f that open a block which the matcher accepts.
InjectAfterHeader(f, key, payload, headers) ==
  LET src == Strip(f, key)
      at == {i \in DOMAIN src : src[i] \in headers}
  IN IF at = {} THEN NoBlockFound ELSE InsertAfter(src, Min(at), Marked(key, payload, TRUE))

-----------------------------------------------------------------------------
(* caddy.go                                                                *)

\* Mutant: the selector is compared with the first label only.
CaddySiteByFirst(selector, line) ==
  /\ ~line.indented
  /\ line.words # <<>> /\ Last(line.words) = "{"
  /\ selector = "" \/ selector = line.words[1]

\* A line that opens a block at the left margin and has the selector among
\* its labels.
CaddySite(selector, line) ==
  /\ ~line.indented
  /\ line.words # <<>> /\ Last(line.words) = "{"
  /\ selector = "" \/ selector \in Range(Front(line.words))

IsComment(line) == line.words # <<>> /\ line.words[1] = "#"

\* The first line that says something opens the global options block.
CaddyHasGlobalBlock(f) ==
  LET said == {i \in DOMAIN f : f[i].words # <<>> /\ ~IsComment(f[i])}
  IN said # {} /\ f[Min(said)].words = <<"{">>

CaddyHasServers(f) ==
  \E i \in DOMAIN f :
    \/ Len(f[i].words) >= 1 /\ f[i].words[1] = "trusted_proxies"
    \/ Len(f[i].words) >= 2 /\ SubSeq(f[i].words, 1, 2) = <<"servers", "{">>

\* caddyEnsureTrustedProxies: the trusted ranges go into the global options,
\* which are made if there are none.
EnsureTrustedProxies(f, key, ranges) ==
  LET src == Strip(f, key)
      servers == <<Line(FALSE, <<"servers", "{">>),
                   Line(TRUE, <<"trusted_proxies", ranges>>),
                   Line(FALSE, <<"}">>)>>
      global == <<Line(FALSE, <<"{">>)>>
                  \o [i \in DOMAIN servers |-> Line(TRUE, servers[i].words)]
                  \o <<Line(FALSE, <<"}">>)>>
  IN IF ~CaddyHasGlobalBlock(src) THEN Marked(key, global, FALSE) \o src
     ELSE IF CaddyHasServers(src) THEN NoBlockFound
     ELSE InjectAfterHeader(src, key, servers,
            {line \in Range(src) : ~line.indented /\ line.words = <<"{">>})

CaddyInject(f, key, globalKey, selector, realIp, ranges) ==
  LET out == InjectAfterHeader(f, key, <<Line(FALSE, <<"import", key>>)>>,
                               {line \in Range(f) : CaddySite(selector, line)})
  IN IF out = NoBlockFound \/ ~realIp THEN out
     ELSE EnsureTrustedProxies(out, globalKey, ranges)

-----------------------------------------------------------------------------
(* haproxy.go                                                              *)

HaproxyFrontend(selector, line) ==
  /\ ~line.indented
  /\ line.words # <<>> /\ line.words[1] = "frontend"
  /\ selector = "" \/ (Len(line.words) >= 2 /\ line.words[2] = selector)

\* The access list is named after the target, the rule depends on the mode,
\* and real_ip lets the forwarded address replace the peer's.
HaproxyPayload(key, mode, realIp) ==
  <<Line(FALSE, <<"acl", key>>), Line(FALSE, <<"deny-if", mode, key>>)>>
    \o (IF realIp THEN <<Line(FALSE, <<"forwardfor">>), Line(FALSE, <<"set-src">>)>> ELSE <<>>)

HaproxyInject(f, key, selector, mode, realIp) ==
  InjectAfterHeader(f, key, HaproxyPayload(key, mode, realIp),
                    {line \in Range(f) : HaproxyFrontend(selector, line)})

-----------------------------------------------------------------------------
(* apache.go                                                               *)

Include(key) == <<Line(FALSE, <<"Include", key>>)>>

\* The file up to its last line that is not empty.
Trimmed(f) ==
  LET said == {i \in DOMAIN f : f[i] # Blank}
  IN IF said = {} THEN <<>> ELSE SubSeq(f, 1, Max(said))

\* appendInclude: without a selector the block goes to the end.
AppendInclude(f, key) ==
  Trimmed(Strip(f, key)) \o <<Blank>> \o Marked(key, Include(key), FALSE) \o <<Blank>>

Starts(line, words) == line.words # <<>> /\ line.words[1] \in words

\* The virtual host that is open at line i, 0 if none is.
VhostOpenAt(f, i) ==
  LET tags == {v \in 1 .. i : Starts(f[v], {"<VirtualHost", "</VirtualHost"})}
  IN IF tags = {} \/ Starts(f[Max(tags)], {"</VirtualHost"}) THEN 0 ELSE Max(tags)

\* injectApacheVhost: after the opening line of the first virtual host with
\* that ServerName or ServerAlias.
InjectVhost(f, key, selector) ==
  LET src == Strip(f, key)
      named == {i \in DOMAIN src :
                  /\ VhostOpenAt(src, i) # 0
                  /\ Starts(src[i], {"ServerName", "ServerAlias"})
                  /\ selector \in Range(Tail(src[i].words))}
  IN IF named = {} THEN NoBlockFound
     ELSE InsertAfter(src, VhostOpenAt(src, Min(named)), Marked(key, Include(key), TRUE))

ApacheInject(f, key, selector) ==
  IF selector = "" THEN AppendInclude(f, key) ELSE InjectVhost(f, key, selector)
=============================================================================
