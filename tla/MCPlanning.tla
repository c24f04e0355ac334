----------------------------- MODULE MCPlanning -----------------------------
(***************************************************************************)
(* An instance of Planning for TLC.                                        *)
(***************************************************************************)
EXTENDS Planning

CONSTANTS l1, r1, w1, small, llama, bzImage, rootA, rootB

Local == [Default EXCEPT !.provider = "openai", !.model = llama, !.disk = rootA]
Hosted == [Default EXCEPT !.key = 40, !.kernel = bzImage, !.disk = NoneWord]
SomeTexts == {Absent, Malformed, Local, Hosted}
SomeEdits == {Hosted}

NoEnv == [key |-> NotSet, provider |-> NotSet, model |-> NotSet,
          kernel |-> NotSet, disk |-> NotSet]
SomeEnvs == {NoEnv,
             [NoEnv EXCEPT !.key = 50, !.provider = "openai", !.disk = Blank],
             [NoEnv EXCEPT !.provider = "other"]}

Call(n, i) == [name |-> n, input |-> i]
Plan(s, d) == [spec |-> s, disk |-> d]
SomeBatches ==
  { << >>,
    << Call("inspect_vm", Other), Call("other", Other) >>,
    << Call("provision_kvm_machine", Garbled) >>,
    << Call("list_vms", Other), Call("provision_kvm_machine", Plan(small, rootB)),
       Call("provision_kvm_machine", Plan(small, NoneWord)) >> }
=============================================================================
