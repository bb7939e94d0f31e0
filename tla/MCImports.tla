------------------------------ MODULE MCImports ------------------------------
(* Values of the constants of Imports that a cfg cannot write.             *)
EXTENDS ImportsProperties

SomeEntities == ("amp" :> <<"&">>) @@ ("gt" :> <<">">>) @@ ("quot" :> <<"\"">>)

\* With Micro = 10 and Epoch = 3, five seconds after 1970 are 80 micro seconds of Chromium's.
SomeStamps ==
    ("5s" :> [long |-> FALSE, value |-> 5]) @@ ("80us" :> [long |-> TRUE, value |-> 80])

SomeColumns ==
    ("url" :> "url") @@ ("title" :> "title") @@ ("visit_count" :> "visit_count")
      @@ ("typed_count" :> "typed_count") @@ ("last_visit_time" :> "last_visit_time")

SomeCounts == ("0" :> 0) @@ ("1" :> 1) @@ ("2" :> 2)

SomeDates ==
    ("2024-01-02T00:00:00Z" :> [kind |-> "iso", lead |-> 2024, second |-> 0, digits |-> 4])
      @@ ("13/02/24" :> [kind |-> "slash", lead |-> 13, second |-> 2, digits |-> 2])
      @@ ("02/13/24" :> [kind |-> "slash", lead |-> 2, second |-> 13, digits |-> 2])
      @@ ("03/04/24" :> [kind |-> "slash", lead |-> 3, second |-> 4, digits |-> 2])

Folder(name) == [kind |-> "folder", name |-> name]
Entry(url, title, added, when) == [kind |-> "entry", url |-> url, title |-> title, added |-> added, when |-> when]
Row(url, title, visits, typed, time) ==
    [url |-> url, title |-> title, visit_count |-> visits, typed_count |-> typed, last_visit_time |-> <<time>>]
Logged(url, title, incognito) ==
    [url |-> url, title |-> title, last_visit_time |-> <<"2024-01-02T00:00:00Z">>, incognito |-> incognito]

SomeItems ==
    ("html" :> {Folder(<<"&", "F">>), Folder(<<"G">>), [kind |-> "close"],
                Entry(<<"u", "&", "amp", ";">>, <<"x", "&">>, "5s", 5),
                Entry(<<"v">>, <<">", "\"", "y">>, "80us", 5)})
    @@ ("csv" :> {Row(<<"h://">>, <<"x", ",", "y">>, 2, 1, "2024-01-02T00:00:00Z"),
                  Row(<<"h://", ",">>, <<"\"", "x", "\"", "\n">>, 1, 0, "2024-01-02T00:00:00Z"),
                  Row(<<"about:">>, <<>>, 1, 2, "2024-01-02T00:00:00Z")})
    @@ ("table" :> {Row(<<"h://">>, <<"x", ";", ",">>, 2, 0, "13/02/24"),
                    Row(<<"h://", "w">>, <<"y">>, 1, 0, "02/13/24"),
                    Row(<<"h://", "v">>, <<>>, 1, 0, "03/04/24")})
    @@ ("json" :> {Logged(<<"h://">>, <<"x", "\"", ",">>, FALSE), Logged(<<"h://">>, <<"]", "\\">>, FALSE),
                   Logged(<<"w">>, <<"{", "x", "}">>, FALSE)})
    @@ ("extension" :> {Logged(<<"h://">>, <<"x", "\n", "[">>, FALSE), Logged(<<"w">>, <<"\\", "n">>, TRUE),
                        Logged(<<"w">>, <<"\t", "\r">>, FALSE), Logged(<<"w">>, <<"{">>, TRUE)})
=============================================================================
