--------------------------------- MODULE MCRecon -------------------------------
(* One target and the flags it is scanned with. *)
EXTENDS Recon

\* The scans: a front end, its modules, -passive, -c, -rate, a minimal severity.
Scan(front, modules, passive, threads, rate, severe) ==
  [front |-> front, modules |-> modules, passive |-> passive,
   threads |-> threads, rate |-> rate, severe |-> severe]

FeedPlan == {"passivesrc", "permute", "httprobe", "jsdeep", "endprobe", "takeover"}

MCScans ==
  {Scan("cli", {"crawler"}, FALSE, 0, 1, FALSE),
   Scan("cli", {"whois", "cors"}, FALSE, 9, 0, FALSE),
   Scan("mcp", {"wayback", "permute"}, FALSE, 1, 0, FALSE),
   Scan("cli", {"cloud", "asnmap"}, TRUE, -1, 0, FALSE),
   Scan("mcp", {"dns"}, FALSE, 1, 1, TRUE), Scan("mcp", {"dns"}, FALSE, 2, 0, FALSE),
   Scan("mcp", {"portscan"}, FALSE, 2, 0, FALSE),
   Scan("mcp", {"crawler", "whois"}, FALSE, 2, 0, TRUE),
   Scan("mcp", {"dirbrute"}, FALSE, 1, 0, FALSE), Scan("mcp", {"dirbrute"}, FALSE, 2, 0, FALSE),
   Scan("mcp", FeedPlan, FALSE, 2, 0, FALSE)}

\* One interrupted module is enough to have two reports at once.
InterruptedScans == {Scan("cli", {"whois"}, FALSE, 1, 0, FALSE)}

MCInfoTopics == {"result"}

\* dns: an alias of a hosted service, a name with only an IPv6 address, and a name
\* that does not exist.
Record(v4, v6, alias) == [v4 |-> v4, v6 |-> v6, alias |-> alias]
MCZone == "shop" :> Record({}, {}, "cdn") @@ "six" :> Record({}, {"i6"}, "-")
          @@ "cdn" :> Record({"i1"}, {}, "-")
MCWordlist == <<"shop", "six", "ghost">>
MCResolvers == <<"good", "bad">>

\* portscan: two addresses swept of three, one of them twice in the answer.
MCRecords == <<"v6", "a", "a", "b">>
MCIsIPv4 == "a" :> TRUE @@ "b" :> TRUE @@ "v6" :> FALSE
MCListening == "a" :> {1, 3} @@ "b" :> {2} @@ "v6" :> {1}
MCPortSpecs == {[kind |-> "range", from |-> -4, to |-> 9], [kind |-> "range", from |-> 3, to |-> 2]}
MCTop == <<2, 1>>

\* crawler: two spellings of one page, a cycle, a shell, a document.
Url(kind, links, endpoint) == [answer |-> kind, links |-> links, endpoint |-> endpoint]
MCSite == "/" :> Url("page", <<"/a", "/b">>, FALSE)
          @@ "/a" :> Url("page", <<"/b/", "/c", "/">>, FALSE)
          @@ "/b" :> Url("page", <<"/d", "/e">>, TRUE)
          @@ "/b/" :> Url("page", <<"/d", "/e">>, TRUE)
          @@ "/c" :> Url("shell", <<>>, FALSE)
          @@ "/d" :> Url("document", <<>>, FALSE)
          @@ "/e" :> Url("page", <<"/a">>, FALSE)
MCClean == [u \in DOMAIN MCSite |-> IF u = "/b/" THEN "/b" ELSE u]

\* dirbrute: a single-page application that gives its shell for most paths, and an
\* edge that blocks most of them and has a page of its own for a missing one.
MCLines == <<"a", "b", "c", "d/", "w/", ".env", ".git", "m">>
MCExtended == "a" :> "a.php" @@ "b" :> "b.php" @@ "c" :> "c.php"
              @@ ".env" :> ".env.php" @@ ".git" :> ".git.php" @@ "m" :> "m.php"
MCWithExt == [p \in DOMAIN MCExtended |-> [e \in {".php"} |-> MCExtended[p]]]
MCPhp == {MCExtended[p] : p \in DOMAIN MCExtended}
MCPaths == ToSet(MCLines) \cup MCPhp
Served(status, size, hash, soft) == [status |-> status, size |-> size, hash |-> hash, soft |-> soft]
MCApplication ==
  [baseline |-> [status |-> 404, size |-> 30],
   served |-> [p \in MCPaths |->
     CASE p = ".env" -> Served(200, 1010, 2, FALSE)
       [] p = "m" -> Served(200, 1005, 3, FALSE)
       [] p = "d/" -> Served(403, 149, 0, FALSE)
       [] p = "w/" -> Served(301, 0, 0, FALSE)
       [] p \in MCPhp -> Served(200, 1004, 1, FALSE)
       [] OTHER -> Served(200, 1000, 1, FALSE)]]
MCEdge ==
  [baseline |-> [status |-> 200, size |-> 900],
   served |-> [p \in MCPaths |->
     CASE p = ".env" -> Served(200, 40, 2, FALSE)
       [] p = "m" -> Served(200, 5000, 3, FALSE)
       [] p = "a.php" -> Served(403, 700, 0, FALSE)
       [] p \in MCPhp -> Served(403, 149, 0, FALSE)
       [] p \in {"a", "b"} -> Served(200, 910, 1, TRUE)
       [] OTHER -> Served(404, 0, 0, FALSE)]]
MCServers == {MCApplication, MCEdge}
MCWordLists == {MCLines, <<>>}
MCDefaultPaths == <<"a", ".env">>
MCExtLists == {<<>>, <<".php">>}

\* wayback: an archive that knows the subdomains, and one that knows the domain only;
\* in both, more than the page limit lets through.
MCArchives == {<<<<>>, <<"top", "far", "www", "top", "old">>>>,
               <<<<"www", "old", "far", "www", "www">>, <<"top">>>>}

\* The feedback between modules: two sources, a variant of a name they give, a host
\* that answers on both schemes with two icons and one that redirects.
MCSources == <<"crt.sh", "otx">>
MCNames == "crt.sh" :> {"api", "far"} @@ "otx" :> {"api", "old"}
MCVariants == "api" :> {"dev-api", "api-dev"}
Page(scheme, host, hash) == [scheme |-> scheme, host |-> host, hash |-> hash]
MCLive == <<"target", "top">> :> Page("https", "top", 1)
          @@ <<"https", "api">> :> Page("https", "api", 2)
          @@ <<"http", "api">> :> Page("http", "api", 3)
          @@ <<"http", "dev-api">> :> Page("https", "api", 2)
MCContentJS == <<"main.js", "lib.js">>
MCPageJS == <<"lib.js", "main.js">>
MCRoutes == "main.js" :> {"/admin", "/rest/"} @@ "lib.js" :> {"/health", "bucket"}
MCUnder == "/admin" :> ("/rest/" :> "/rest/admin")
================================================================================
