---------------------------- MODULE MCUserScript ----------------------------
(* A small instance of UserScript for TLC. *)
EXTENDS UserScript

\* "db:s:" as a base and "t" behind it; a name of its own; a value alone; a base
\* without a colon at its end, so that parts are joined.
Base == [bn |-> <<<<"db">>, <<"s">>, <<>>>>, n |-> NULL, v |-> NULL, valid |-> TRUE]
Temp == [bn |-> NULL, n |-> <<<<"t">>>>, v |-> 7, valid |-> TRUE]
Both == [bn |-> <<<<"x">>, <<"y">>>>, n |-> <<<<"z">>, <<"u">>>>, v |-> NULL, valid |-> TRUE]
Bad  == [bn |-> NULL, n |-> <<<<"q">>>>, v |-> NULL, valid |-> FALSE]

SomePacks == {<<>>, <<Base>>, <<Temp>>, <<Base, Temp, Temp>>, <<Temp, Both, Temp>>,
              <<Both, Base, Temp>>, <<Base, Temp, Bad>>, Garbled}
=============================================================================
