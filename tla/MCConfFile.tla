------------------------------ MODULE MCConfFile ------------------------------
(***************************************************************************)
(* Files for ConfFile: all sequences of one or two parts of the kinds      *)
(* that occur in such files, among them text that only looks like a block. *)
(***************************************************************************)
EXTENDS ConfFile

AllWords == STRING

\* A part: its lines, the line that opens it (0: no block), its names.
Part(lines, header, names) == [lines |-> lines, header |-> header, names |-> names]
In(words) == Line(TRUE, words)
At(words) == Line(FALSE, words)

NginxParts ==
  {Part(<<At(<<"server", "{">>), In(<<"server_name", "a", ";">>), At(<<"}">>)>>, 1, {"a"}),
   Part(<<At(<<"server", "{">>), In(<<"location", "{">>), In(<<"}">>),
          In(<<"word", "quote", "}", "server_name", "quote", ";">>),
          In(<<"server_name", "b", "a", ";", "#", "c">>), At(<<"}">>)>>, 1, {"a", "b"}),
   Part(<<At(<<"server">>), At(<<"{">>), In(<<"#", "}", "server_name", "a", ";">>),
          In(<<"server_name", "b", ";">>), At(<<"}">>)>>, 2, {"b"}),
   Part(<<At(<<"upstream", "{">>), In(<<"server", "word", ";">>), At(<<"}">>)>>, 0, {}),
   Part(<<At(<<"#", "server", "{", "server_name", "a", ";">>)>>, 0, {})}

CaddyParts ==
  {Part(<<At(<<"a", "{">>), In(<<"word">>), At(<<"}">>)>>, 1, {"a"}),
   Part(<<At(<<"b", "a", "{">>), In(<<"a", "{">>), In(<<"}">>), At(<<"}">>)>>, 1, {"a", "b"})}

HaproxyParts ==
  {Part(<<At(<<"frontend", "a">>), In(<<"bind">>)>>, 1, {"a"}),
   Part(<<At(<<"frontend", "b">>), In(<<"use_backend", "a">>)>>, 1, {"b"}),
   Part(<<At(<<"backend", "a">>), In(<<"frontend", "a">>)>>, 0, {})}

ApacheParts ==
  {Part(<<At(<<"<VirtualHost">>), In(<<"ServerName", "a">>), At(<<"</VirtualHost">>)>>, 1, {"a"}),
   Part(<<At(<<"<VirtualHost">>), In(<<"ServerName", "b">>), In(<<"ServerAlias", "c", "a">>),
          At(<<"</VirtualHost">>)>>, 1, {"a", "b"}),
   Part(<<At(<<"<VirtualHost">>), In(<<"ServerName", "b">>), At(<<"</VirtualHost">>)>>, 1, {"b"}),
   Part(<<At(<<"ServerName", "a">>)>>, 0, {})}

Selectors == {"", "a", "b"}

\* The line after which the first part with the selector opens.
Opens(parts, selector) ==
  LET fits == {i \in DOMAIN parts : parts[i].header # 0 /\ (selector = "" \/ selector \in parts[i].names)}
      before(i) == FoldLeft(LAMBDA n, part : n + Len(part.lines), 0, SubSeq(parts, 1, i - 1))
  IN IF fits = {} THEN 0 ELSE before(Min(fits)) + parts[Min(fits)].header

Layout(engine, top, parts, bottom) ==
  [engine |-> engine,
   lines |-> top \o FoldLeft(LAMBDA f, part : f \o part.lines, <<>>, parts) \o bottom,
   opens |-> [s \in Selectors |-> LET n == Opens(parts, s) IN IF n = 0 THEN 0 ELSE Len(top) + n]]

Lists(parts, n) == UNION {[1 .. k -> parts] : k \in 1 .. n}

NginxLayouts ==
  {Layout("nginx", <<>>, parts, <<>>) : parts \in Lists(NginxParts, 2)}
    \cup {Layout("nginx", <<At(<<"http", "{">>)>>, parts, <<At(<<"}">>)>>) : parts \in Lists(NginxParts, 2)}
HaproxyLayouts == {Layout("haproxy", <<At(<<"global">>)>>, parts, <<>>) : parts \in Lists(HaproxyParts, 2)}
ApacheLayouts == {Layout("apache", <<>>, parts, <<>>) : parts \in Lists(ApacheParts, 2)}

\* Without and with global options, and with trusted ranges already there.
CaddyTops ==
  {<<At(<<"#", "word">>)>>,
   <<At(<<"{">>), In(<<"word">>), At(<<"}">>)>>,
   <<At(<<"{">>), In(<<"servers", "{">>), In(<<"}">>), At(<<"}">>)>>}
CaddyLayouts == {Layout("caddy", top, parts, <<>>) : top \in CaddyTops, parts \in Lists(CaddyParts, 2)}

AllLayouts == NginxLayouts \cup HaproxyLayouts \cup ApacheLayouts \cup CaddyLayouts

\* Every engine with and without a selector; real_ip where it changes the file.
Plain(S) == {[selector |-> s, realIp |-> FALSE] : s \in S}
RealIp(S) == {[selector |-> s, realIp |-> TRUE] : s \in S}
AllSettings ==
  [nginx |-> Plain(Selectors), apache |-> Plain(Selectors),
   caddy |-> Plain({"", "a"}) \cup RealIp({"a", "b"}),
   haproxy |-> Plain({"", "a"}) \cup RealIp({"b"})]
AllVersions ==
  [nginx |-> {"v"}, apache |-> {"v"}, caddy |-> {"v", "w"}, haproxy |-> {"allow", "deny"}]

\* The first block of a Caddyfile, with real_ip.
FirstWithRealIp == [caddy |-> RealIp({""})]
PlainCaddyLayouts ==
  {Layout("caddy", <<At(<<"#", "word">>)>>, parts, <<>>) : parts \in Lists(CaddyParts, 2)}

Global == [t1 |-> "t1 global", t2 |-> "t2 global"]
=============================================================================
