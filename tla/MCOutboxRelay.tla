--------------------------- MODULE MCOutboxRelay ---------------------------
(* Instances of OutboxRelay for TLC. *)
EXTENDS OutboxRelay

Tx_(class, repos) == [class |-> class, reg |-> "A", repos |-> repos]
In_(kind, by) == [kind |-> kind, by |-> by]

\* A first push, the DeleteTag of the last tag and a push again: the rows of one
\* repository, all written under its advisory lock.
OneLockPlan == << Tx_("repo", {"x"}), Tx_("repo", {"x"}), Tx_("repo", {"x"}) >>
OneLockIntent == << In_("RepoPush", TRUE), In_("RepoGone", FALSE), In_("RepoPush", FALSE) >>
=============================================================================
