---------------------------- MODULE DomainReport ----------------------------
(***************************************************************************)
(* The trie of DomainTrie.tla and the URLs of UrlParser.tla together: the  *)
(* report on domains (print_domains of c/brave_history.c) enters the site  *)
(* of every history entry into a trie, and fuzz/url_parser_fuzzer.c takes  *)
(* one URL through both.                                                   *)
(***************************************************************************)
EXTENDS DomainTrieProperties

CONSTANTS
    Capital, SmallLetter, HexValue, CharOf, TwoPartTlds, MaxUrl, MaxScheme, MaxPort,
    MaxPortNumber, MaxSegments, MaxParams, MaxDots,     \* see UrlParser
    Hosts,          \* Hosts[t]: the host that the URL t names, as labels, if it names one
    Drivers,        \* "caller", "report", "fuzzer": who uses the trie
    MaxEntries      \* bound: names that are reported

Urls == DOMAIN Hosts

Url == INSTANCE UrlParser

\* Parts of names are texts, those of the hosts that the URLs name among them.
ASSUME ReportAssumption ==
    /\ Empty = <<>>
    /\ Drivers \subseteq {"caller", "report", "fuzzer"}
    /\ MaxEntries \in Nat /\ {MaxScheme, MaxPort, MaxParams, MaxDots} \subseteq Nat \ {0}
    /\ \A t \in Urls : \A u \in Url!Parsed(t) :
            /\ Url!Registrable(u) \in Seq(Part \cup {Empty})
            /\ Url!FullHost(Url!WithParams(Url!Normalized(u))) \in Seq(Part \cup {Empty})

VARIABLES
    driver,
    text,           \* the URL in hand, as a text
    url             \* `parsed`: what it was taken apart into, nothing if that failed

reportVars == <<vars, driver, text, url>>

\* print_domains, one entry.  trie_insert takes the number of URLs first, and is
\* given the visits there.
Report(t, visit_count) ==
    /\ driver = "report" /\ Len(inserted) < MaxEntries
    /\ text' = t /\ url' = Url!Parsed(t)
    /\ IF url' = {} THEN UNCHANGED vars
       ELSE \A u \in url' : IF u.host = <<>> THEN UNCHANGED vars
                            ELSE Insert(Url!Registrable(u), visit_count, 1)
    /\ UNCHANGED driver

\* LLVMFuzzerTestOneInput, up to trie_insert
Fuzz(t) ==
    /\ driver = "fuzzer" /\ text = <<>>
    /\ text' = t /\ url' = {Url!WithParams(Url!Normalized(u)) : u \in Url!Parsed(t)}
    /\ IF url' = {} THEN UNCHANGED vars
       ELSE \A u \in url' : IF u.host = <<>> THEN UNCHANGED vars
                            ELSE Insert(Url!FullHost(u), 1, 1)
    /\ UNCHANGED driver

\* Any caller of the trie; the fuzzer writes its trie, reads it and compacts it.
UseTrie ==
    /\ \/ driver = "caller" /\ Next
       \/ driver = "fuzzer" /\ inserted # <<>> /\ (Reload \/ Compact)
    /\ UNCHANGED <<driver, text, url>>

ReportInit ==
    /\ Init
    /\ driver \in Drivers
    /\ text = <<>> /\ url = {}

ReportNext ==
    \/ \E t \in Urls, visit_count \in Counts : Report(t, visit_count)
    \/ \E t \in Urls : Fuzz(t)
    \/ UseTrie

ReportSpec == ReportInit /\ [][ReportNext]_reportVars

-----------------------------------------------------------------------------
(* Where the pages are.                                                    *)

\* The site of a host: the shortest end of it that one can register, which is neither a
\* single label nor a "co.uk", else the host; an address is its own site.
Site(host) ==
    LET ends == {k \in 1 .. Len(host) - 1 : SubSeq(host, k, Len(host)) \notin TwoPartTlds}
    IN IF ends = {} \/ Url!IsIpv4(Url!Joined(host, ".")) THEN host
       ELSE SubSeq(host, Max(ends), Len(host))

\* The URL says where its path begins and whether "@" ends a user: what stands behind
\* the host is a port and a path with a slash in front.
Unmistakable(u) ==
    /\ u.scheme # <<>> /\ "@" \notin ToSet(u.host)
    /\ u.path # <<>> => u.path[1] = "/"

HasDotSegments(path) == \E s \in ToSet(Url!Fields(path, "/")) : s \in {<<".">>, <<".", ".">>}

\* LeadsToItsSite: however a page is written (capitals, user, port, relative to a scheme),
\* the report enters it under the one site its host belongs to (url_parser.c:695-814,
\* brave_history.c:209-225); and a URL that the fuzzer has normalized names the same host,
\* is taken apart into the same components when it was written and read again, and is its
\* own normal form, without "." and ".." unless a code has spelt them (url_parser.c:605-644,
\* 816-866).
LeadsToItsSite ==
    [][/\ driver = "report" /\ Len(inserted') > Len(inserted) /\ Len(Hosts[text']) \in 1 .. MaxDots + 1
            => Last(inserted').labels = SplitDomainReverse(Site(Hosts[text']))
       /\ driver = "fuzzer" /\ text' # text => \A u \in url' :
            /\ Hosts[text'] # <<>> => Url!FullHost(u) = Hosts[text']
            /\ "%" \notin ToSet(text') => ~HasDotSegments(u.path)
            /\ Unmistakable(u) =>
                LET again == Url!Parsed(Url!Reconstruct(u))
                IN /\ {Url!WithParams(v) : v \in again} = {u}
                   /\ ~HasDotSegments(u.path) => {Url!Normalized(v) : v \in again} = again]_reportVars
=============================================================================
