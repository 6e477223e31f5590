------------------------------ MODULE MCPatricia ------------------------------
(***************************************************************************)
(* Instances of Patricia: words of one-byte and of two-byte symbols that   *)
(* share beginnings, and words that mix them.                              *)
(***************************************************************************)
EXTENDS Patricia

a == <<97>>
b == <<98>>
c == <<99>>
eAcute == <<195, 169>>
eGrave == <<195, 168>>

MCWords ==
  {<<>>, a \o b, a \o b \o c, b, eAcute \o eGrave, eAcute \o eAcute, eAcute \o a}

MCKeys == {a, a \o b}

MCStrings ==
  MCWords \cup {a \o b \o b, a \o b \o c \o a, c, a \o a, eGrave, eAcute, eAcute \o a,
                eAcute \o eGrave \o a}

MCMixed == {eAcute \o a \o b, eAcute \o a \o b \o c, a \o eAcute, a}

MCMixedStrings == MCMixed \cup {eAcute \o a \o c, a \o eGrave}
===============================================================================
