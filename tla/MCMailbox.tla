------------------------------ MODULE MCMailbox ------------------------------
(* Instances of Mailbox for TLC.                                           *)
EXTENDS Mailbox, TLC

CONSTANTS ann, bob

\* Ann's mailbox has two items; Bob is her manager.
AnnsItems == [i \in Items |-> IF i = 3 THEN bob ELSE ann]
BobManagesAnn == [u \in Users |-> IF u = bob THEN {ann} ELSE {}]

FiringOrPlain == {[action |-> "open", alert |-> "firing"],
                  [action |-> "none", alert |-> ""]}

Ask(op, scope, member, mailbox) ==
  [op |-> op, scope |-> scope, member |-> member, mailbox |-> mailbox]

\* Bob reads what Ann has delegated to him or what he sees as her manager;
\* both use their own mailboxes.
UsualQueries ==
  {Ask("list", "delegated", Nobody, "inbox"),
   Ask("list", "team", ann, "unread"),
   Ask("list", "mine", Nobody, "action_required"),
   Ask("get", "delegated", ann, "inbox"),
   Ask("resolve", "mine", Nobody, "inbox"),
   Ask("mark_all_read", "delegated", Nobody, "inbox"),
   Ask("mark_all_read", "mine", Nobody, "inbox"),
   Ask("set", "mine", Nobody, "inbox")}

OpenOrOneSided == {<<0, 0>>, <<2, 0>>, <<0, 2>>}

CallerSymmetry == Permutations(Callers)
=============================================================================
