---------------------------- MODULE MCVMNetwork -----------------------------
(***************************************************************************)
(* A small server: two VMs, of which one runs, two groups that can be      *)
(* there at once and one that takes the name of the second.                *)
(***************************************************************************)
EXTENDS VMNetwork, TLC

CONSTANTS v1, v2, web, ssh, ssh2, f1, f2, some, other

MCSlug == web :> "web" @@ ssh :> "ssh" @@ ssh2 :> "ssh"

MCStarts ==
  {[first |-> TRUE, row |-> {web, ssh}, bound |-> {}, running |-> {v1},
    addr |-> f1 :> None @@ f2 :> None],
   [first |-> FALSE, row |-> {web, ssh}, bound |-> {<<v1, web>>}, running |-> {v1},
    addr |-> f1 :> v1 @@ f2 :> Available]}

MCCalls ==
  JobOf({"edit"}, {None}, {web}, {None}, {other}) \cup
  JobOf({"create"}, {None}, {ssh2}, {None}, {other}) \cup
  JobOf({"rename"}, {None}, {web}, {None}, {NoRules}) \cup
  JobOf({"delete"}, {None}, {ssh}, {None}, {NoRules}) \cup
  JobOf({"portalDelete"}, {None}, {ssh}, {None}, {NoRules}) \cup
  JobOf({"bind"}, {v1}, {ssh}, {None}, {NoRules}) \cup
  JobOf({"bind"}, {v2}, {ssh}, {None}, {NoRules}) \cup
  JobOf({"unbind"}, {v1}, {web}, {None}, {NoRules}) \cup
  JobOf({"attach"}, {v1}, {None}, {f1, f2}, {NoRules}) \cup
  JobOf({"attach"}, {v2}, {None}, {f1}, {NoRules}) \cup
  JobOf({"detach"}, {None}, {None}, {f1}, {NoRules}) \cup
  JobOf({"release"}, {None}, {None}, {f1}, {NoRules}) \cup
  JobOf({"defaults"}, {v1}, {None}, {None}, {NoRules})
=============================================================================
