---------------------------- MODULE MCGuiThread ----------------------------
(* The goroutine of Run and two others: they lock, one of them twice, while
   the third may unlock too much; or they flush, and so does a handler.  A
   Flush beside a Lock may freeze. *)
EXTENDS GuiThread

CONSTANTS g1, g2, g3, qml

ScriptsOf(first, second, third, handlers) ==
  {s \in [{g1, g2, g3, qml} -> first \cup second \cup third \cup handlers] :
     s[g1] \in first /\ s[g2] \in second /\ s[g3] \in third /\ s[qml] \in handlers}

Locking ==
  ScriptsOf({<<"function", "Lock", "Unlock">>},
            {<<"Lock", "Lock", "Unlock", "Unlock">>},
            {<<"function", "function">>, <<"Unlock">>}, {<<"function">>})
Flushing ==
  ScriptsOf({<<"function", "Flush", "function">>}, {<<"Flush", "function">>},
            {<<"function">>}, {<<"Flush", "function">>})
MCScripts == Locking \cup Flushing
=============================================================================
