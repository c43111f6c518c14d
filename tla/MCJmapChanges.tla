---------------------------- MODULE MCJmapChanges ----------------------------
(* Instances of JmapChanges: e-mails, mailboxes and files, own and shared. *)
EXTENDS JmapChanges, TLC

Session(kind, cached, shared) == [kind |-> kind, cached |-> cached, shared |-> shared]

AllSessions == {Session("item", TRUE, FALSE), Session("container", TRUE, FALSE),
                Session("item", FALSE, FALSE), Session("item", TRUE, TRUE),
                Session("item", FALSE, TRUE)}

Symmetry == Permutations(Messages) \cup Permutations(Threads)
=============================================================================
