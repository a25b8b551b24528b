----------------------------- MODULE MCResources -----------------------------
(* Names for Resources: aq and ba have the same hash, e has an accent. *)
EXTENDS Resources

aq == <<97, 113>>
ba == <<98, 97>>
c  == <<99>>
e  == <<233>>

AsciiPaths == {<<aq>>, <<ba>>, <<c>>, <<aq, ba>>, <<ba, aq>>, <<ba, c, c>>}
AccentedPaths == {<<c>>, <<e>>, <<c, e>>, <<e, c>>, <<aq>>}
=============================================================================
