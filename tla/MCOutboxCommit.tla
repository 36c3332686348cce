--------------------------- MODULE MCOutboxCommit ---------------------------
(* Instances of OutboxCommit for TLC. *)
EXTENDS OutboxCommit

Tx_(class, repos) == [class |-> class, reg |-> "A", repos |-> repos]

\* A visibility flip or rename of a repository, and a push or DeleteTag of it.
TwoLocksPlan == << Tx_("overlay", {"x", "y"}), Tx_("repo", {"x"}) >>
=============================================================================
