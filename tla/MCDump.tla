------------------------------- MODULE MCDump -------------------------------
(* Instances of Dump: two peers and a key that lines and the header name.  *)
EXTENDS Dump

const_Category == {"peer", "key"}
p1 == [cat |-> "peer", text |-> "p1"]
p2 == [cat |-> "peer", text |-> "p2"]
k1 == [cat |-> "key",  text |-> "k1"]
const_Value == {p1, p2, k1}
const_Texts == {<<p1>>, <<k1, p2>>}

Ask(g, o, y, h, d, t) ==
  [gist |-> g, output |-> o, yes |-> y, header |-> h, doctor |-> d, token |-> t]
const_Requests ==
  {Ask(FALSE, "-", FALSE, TRUE, FALSE, "missing"),
   Ask(TRUE, "default", TRUE, FALSE, TRUE, "good"),
   Ask(TRUE, "file", FALSE, TRUE, TRUE, "good"),
   Ask(TRUE, "default", TRUE, FALSE, FALSE, "malformed"),
   Ask(TRUE, "-", TRUE, FALSE, FALSE, "good"),
   Ask(TRUE, "default", TRUE, FALSE, FALSE, "missing")}
=============================================================================
