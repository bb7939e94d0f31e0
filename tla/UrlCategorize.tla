---------------------------- MODULE UrlCategorize ----------------------------
(***************************************************************************)
(* c/url_categorize.c: the rules, how a page gets its category, and the    *)
(* statistics of the categories.  A class of characters in a glob is one   *)
(* character here, "[x-y]" or the like, whose members Class gives.         *)
(***************************************************************************)
EXTENDS UrlText, Ordering

CONSTANTS
    Class,          \* Class[c]: [negate, chars] of a class in globs
    Builtin,        \* BUILTIN_CATEGORIES: a sequence of categories
    MaxCategories,  \* CAT_MAX_CATEGORIES (32)
    MaxRules,       \* CAT_MAX_RULES_PER (128)
    MaxKeywords,    \* CAT_MAX_KEYWORDS (32)
    MaxLineLen,     \* what is read of a line of rules (1023)
    MaxNameLen,     \* what is kept of a name or a keyword (63),
    MaxDomainLen,   \* of a domain: CAT_MAX_DOMAIN_LEN - 1 (255),
    MaxPatternLen   \* and of a pattern: CAT_MAX_PATTERN_LEN - 1 (511)

ASSUME CategorizeAssumption ==
    /\ MaxCategories \in Nat \ {0} /\ Len(Builtin) <= MaxCategories
    /\ MaxRules \in Nat /\ MaxKeywords \in Nat
    /\ MaxLineLen \in Nat /\ MaxNameLen \in Nat /\ MaxDomainLen \in Nat /\ MaxPatternLen \in Nat

IsCategory(cat) ==
    /\ cat = [name |-> cat.name, rules |-> cat.rules, keywords |-> cat.keywords]
    /\ IsList(cat.rules) /\ Len(cat.rules) <= MaxRules
    /\ IsList(cat.keywords) /\ Len(cat.keywords) <= MaxKeywords

ASSUME BuiltinAssumption ==
    /\ IsList(Builtin)
    /\ \A c \in DOMAIN Builtin :
          /\ IsCategory(Builtin[c])
          /\ \A d \in DOMAIN Builtin : SameText(Builtin[d].name, Builtin[c].name) => d = c

-----------------------------------------------------------------------------
(* cat_glob_match.  pp and sp are the places reached in the pattern and in *)
(* the text, star and at those of the latest star, 0 if there was none.    *)

CharMatch(p, c) ==
    IF p \in DOMAIN Class THEN (c \in Class[p].chars) # Class[p].negate
    ELSE p = "?" \/ SameText(<<p>>, <<c>>)

\* Mutant: the text is not tried from the next place when a star is tried again.
StayAtStar(pattern, text, s) ==
    CASE s.pp <= Len(pattern) /\ pattern[s.pp] = "*" -> [s EXCEPT !.pp = s.pp + 1, !.star = s.pp, !.at = s.sp]
      [] s.pp <= Len(pattern) /\ pattern[s.pp] # "*" /\ CharMatch(pattern[s.pp], text[s.sp]) ->
            [s EXCEPT !.pp = s.pp + 1, !.sp = s.sp + 1]
      [] OTHER -> IF s.star > 0 THEN [s EXCEPT !.pp = s.star + 1, !.sp = s.sp + 1] ELSE [s EXCEPT !.sp = 0]

\* One round of the loop; on a mismatch the latest star takes one more character.
GlobStep(pattern, text, s) ==
    CASE s.pp <= Len(pattern) /\ pattern[s.pp] = "*" -> [s EXCEPT !.pp = s.pp + 1, !.star = s.pp, !.at = s.sp]
      [] s.pp <= Len(pattern) /\ pattern[s.pp] # "*" /\ CharMatch(pattern[s.pp], text[s.sp]) ->
            [s EXCEPT !.pp = s.pp + 1, !.sp = s.sp + 1]
      [] OTHER -> IF s.star > 0 THEN [s EXCEPT !.pp = s.star + 1, !.sp = s.at + 1, !.at = s.at + 1]
                  ELSE [s EXCEPT !.sp = 0]

GlobMatch(pattern, text) ==
    LET States == [pp : 1 .. Len(pattern) + 1, sp : 0 .. Len(text) + 1,
                   star : 0 .. Len(pattern), at : 0 .. Len(text) + 1]
        Runs[s \in States] ==
            IF s.sp = 0 THEN FALSE
            ELSE IF s.sp > Len(text) THEN \A i \in s.pp .. Len(pattern) : pattern[i] = "*"
            ELSE Runs[GlobStep(pattern, text, s)]
    IN Runs[[pp |-> 1, sp |-> 1, star |-> 0, at |-> 0]]

-----------------------------------------------------------------------------
(* Matching of a page.                                                     *)

\* cat_domain_match
DomainMatch(pattern, domain) ==
    \/ SameText(pattern, domain)
    \/ /\ Starts(pattern, <<"*", ".">>)
       /\ Ends(domain, Tail(pattern)) \/ SameText(domain, Tail(Tail(pattern)))
    \/ /\ Ends(pattern, <<".", "*">>) /\ Len(domain) > Len(pattern) - 1
       /\ Starts(domain, Front(pattern))
    \/ Len(domain) > Len(pattern) + 1 /\ Ends(domain, <<".">> \o pattern)

\* extract_domain_from_url: without a user, in small letters; the path behind the port.
AfterUser(url) ==
    LET text == AfterScheme(url)
    IN IF Contains(Until(text, {"/"}), "@") THEN Behind(text, {"@"}) ELSE text
Domain(url) == Lower(Until(AfterUser(url), {"/", ":", "?", "#"}))
Path(url) ==
    LET text == AfterUser(url)
        rest == SubSeq(text, Len(Until(text, {"/", "?", "#"})) + 1, Len(text))
    IN IF rest # <<>> /\ Head(rest) = "/" THEN Until(rest, {"?", "#"}) ELSE <<>>

RuleMatches(rule, url) ==
    /\ DomainMatch(rule.domain, Domain(url))
    /\ rule.type = "path" => Path(url) # <<>> /\ GlobMatch(rule.pattern, Path(url))

\* cat_categorize_url: the rules of all categories come before any keyword; 0 is no category.
Categorize(categories, e) ==
    LET ruled == {c \in DOMAIN categories :
                    \E i \in DOMAIN categories[c].rules : RuleMatches(categories[c].rules[i], e.url)}
        named == {c \in DOMAIN categories :
                    e.title # <<>> /\ \E i \in DOMAIN categories[c].keywords :
                        Found(categories[c].keywords[i], e.title)}
    IN CASE Domain(e.url) = <<>> -> 0
         [] Domain(e.url) # <<>> /\ ruled # {} -> Min(ruled)
         [] Domain(e.url) # <<>> /\ ruled = {} /\ named # {} -> Min(named)
         [] OTHER -> 0

-----------------------------------------------------------------------------
(* cat_engine_load_rules_buffer.  A line is [kind, name, list]: a section, *)
(* a list of domains or of keywords, or a path rule of a domain.           *)

Total(numbers) == FoldLeft(+, 0, numbers)

\* The first characters of a text, as many as there is room for.
Clipped(text, room) == SubSeq(text, 1, IF Len(text) > room THEN room ELSE Len(text))

\* What is read of a line: the items of its list up to the end of the line, the last of
\* them cut short, and each up to what is kept of it; a name that reaches the end of the
\* line is not closed, and such a line says nothing.  The signs and the word before the
\* list count as one character, and so does each comma.
ReadLine(line) ==
    LET room == MaxLineLen - Len(line.name) - 1
        start == [i \in DOMAIN line.list |-> Total([j \in 1 .. i - 1 |-> Len(line.list[j]) + 1])]
        kept == CASE line.kind = "domains" -> MaxDomainLen
                  [] line.kind = "path" -> MaxPatternLen
                  [] OTHER -> MaxNameLen
    IN [kind |-> IF room < 0 THEN "none" ELSE line.kind,
        name |-> Clipped(line.name, IF line.kind = "path" THEN MaxDomainLen ELSE MaxNameLen),
        list |-> [i \in DOMAIN line.list |-> Clipped(Clipped(line.list[i], room - start[i]), kept)]]

ReadLines(lines) == [i \in DOMAIN lines |-> ReadLine(lines[i])]

\* cat_engine_init_defaults, and no section yet
InitDefaults == [categories |-> Builtin, current |-> 0]

\* As many items of a list as there is room for.
Extended(old, new, room) == SubSeq(old \o new, 1, IF Len(old \o new) > room THEN room ELSE Len(old \o new))

NotEmpty(list) == Selected(list, {i \in DOMAIN list : list[i] # <<>>})

DomainRules(list) ==
    LET given == NotEmpty(list)
    IN [i \in DOMAIN given |-> [type |-> "domain", domain |-> given[i], pattern |-> <<>>]]

\* Mutant: the lines of a section without room go to the one before.
SectionOrStay(engine, name) ==
    LET same == {c \in DOMAIN engine.categories : SameText(engine.categories[c].name, name)}
        n    == Len(engine.categories)
    IN IF same # {} THEN [engine EXCEPT !.current = Min(same)]
       ELSE IF n < MaxCategories
       THEN [categories |-> Append(engine.categories, [name |-> name, rules |-> <<>>, keywords |-> <<>>]),
             current |-> n + 1]
       ELSE engine

\* A section goes on with the category of that name, or opens a new one; if there is no
\* room for one, the lines of the section are skipped.
Section(engine, name) ==
    LET same == {c \in DOMAIN engine.categories : SameText(engine.categories[c].name, name)}
        n    == Len(engine.categories)
    IN IF same # {} THEN [engine EXCEPT !.current = Min(same)]
       ELSE IF n < MaxCategories
       THEN [categories |-> Append(engine.categories, [name |-> name, rules |-> <<>>, keywords |-> <<>>]),
             current |-> n + 1]
       ELSE [engine EXCEPT !.current = 0]

\* A keyword of blanks only is skipped, as such a domain is.
LoadLine(engine, line) ==
    LET c == engine.current
    IN CASE line.kind = "section" -> Section(engine, line.name)
         [] line.kind = "domains" /\ c # 0 ->
              [engine EXCEPT !.categories[c].rules = Extended(@, DomainRules(line.list), MaxRules)]
         [] line.kind = "keywords" /\ c # 0 ->
              [engine EXCEPT !.categories[c].keywords =
                  Extended(@, NotEmpty(line.list), MaxKeywords)]
         [] line.kind = "path" /\ c # 0 ->
              [engine EXCEPT !.categories[c].rules =
                  Extended(@, <<[type |-> "path", domain |-> line.name, pattern |-> line.list[1]]>>, MaxRules)]
         [] OTHER -> engine

LoadRules(lines) == FoldLeft(LoadLine, InitDefaults, ReadLines(lines)).categories

-----------------------------------------------------------------------------
(* cat_categorize_all                                                      *)

\* The statistics of the entries of category c (0 for those of none).
CategoryStats(categories, entries, c) ==
    LET mine == SelectSeq(entries, LAMBDA e : Categorize(categories, e) = c)
        visits == [i \in DOMAIN mine |-> mine[i].visit_count]
        most == {i \in DOMAIN mine : visits[i] > 0 /\ \A j \in DOMAIN mine : visits[j] <= visits[i]}
    IN [url_count |-> Len(mine), total_visits |-> Total(visits),
        top_domain |-> IF most = {} THEN <<>> ELSE Domain(mine[Min(most)].url),
        top_domain_visits |-> IF most = {} THEN 0 ELSE visits[Min(most)]]

CategorizeAll(categories, entries) ==
    [c \in 0 .. Len(categories) |-> CategoryStats(categories, entries, c)]
=============================================================================
