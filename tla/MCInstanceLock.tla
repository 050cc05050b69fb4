---------------------------- MODULE MCInstanceLock ----------------------------
(* Lock files a process that died may have left, for InstanceLock. *)
EXTENDS InstanceLock

CONSTANTS p1, p2

Left(isWhole) == [by |-> [pid |-> Dead, n |-> 0], whole |-> isWhole]
NoLeftFile == {NoFile}
AnyLeftFile == {NoFile, Left(TRUE), Left(FALSE)}
=============================================================================
