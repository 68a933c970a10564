----------------------- MODULE MCTemplatePublication -----------------------
(* Instances of TemplatePublication for TLC.                               *)
EXTENDS TemplatePublication, TLC

OwnProcess == [w \in Workers |-> w]
ActorSymmetry == Permutations(Workers) \union Permutations(Admins)
                 \union Permutations(Requests)
=============================================================================
