------------------------------ MODULE MCDisks -------------------------------
(* Disks on small instances; VMs, images and files are interchangeable.    *)
EXTENDS Disks, TLC

Symmetry == Permutations(VMs) \cup Permutations(Images) \cup Permutations(Files)

(* What a file that nobody names or has open once held is read by nobody.  *)
View == <<image, disk, call, placed, open,
          [f \in Inodes |-> IF Live(f) THEN content[f] ELSE Absent]>>
=============================================================================
