--------------------------- MODULE MCConfigParser ---------------------------
(* Values of ConfigParser's constants that a cfg cannot write.             *)
EXTENDS ConfigParserProperties

MainFile == <<"a.conf">>

SomeLines ==
    {<<"[", "s", "]">>,
     <<"[", " ", "t", "]", ";">>,
     <<"[", "s">>,
     <<"@include", " ", "\"", "b.conf", "\"">>,
     <<"@include", " ", "a.conf">>,
     <<"@include">>,
     <<" ", "k", "=", "7">>,
     <<"k", "=", "\"", "1", "#", " ", "\"", " ", "#", "x">>,
     <<"k", "=", "'", "${W}", "\"", "1", "\"", "#", "'", " ", ";", "x">>,
     <<"k", "=", "\"", "it", "'", "s", "#", "\"">>,
     <<"k", "=", "2", "\\">>,
     <<"n", "=", "${V}", " ", ";", "x">>,
     <<"#", "=">>}

InEnv == ("${V}" :> <<"-", "1", ".", "5">>)

\* [s] k is an int from 1 to 9, [t] n one of two floats that defaults to the second
SomeSchema ==
    <<[section |-> <<"s">>, key |-> <<"k">>, type |-> "int", required |-> FALSE,
       default |-> {<<"8">>}, min |-> 1, max |-> 9, enum |-> {}],
      [section |-> <<"t">>, key |-> <<"n">>, type |-> "float", required |-> FALSE,
       default |-> {<<"2", ".", "5">>}, min |-> 0, max |-> 0,
       enum |-> {<<"-", "1", ".", "5">>, <<"2", ".", "5">>}],
      [section |-> <<>>, key |-> <<"k">>, type |-> "string", required |-> TRUE,
       default |-> {}, min |-> 0, max |-> 0, enum |-> {}]>>

\* What the theorem about ValidatedReads supposes of a schema.
ASSUME SchemaAssumption == SoundDefaults
=============================================================================
