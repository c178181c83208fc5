---------------------------- MODULE MCAdapterCalls ----------------------------
(***************************************************************************)
(* All eleven adapters.  Two tools in two versions and one change by the   *)
(* user; every document over two versions and two days at each source;     *)
(* three items, two of which are versions of one mise tool; pipes of one   *)
(* byte, and every child that writes at most three.                        *)
(***************************************************************************)
EXTENDS AdapterCalls, SequencesExt

AllManagers ==
  {"npm", "pnpm", "bun", "cargo", "gem", "go", "uv", "pipx", "dotnet", "mise", "brew"}
MCPackageOf == [i \in Items |-> IF i = 2 THEN 1 ELSE i]
UpToThree == BoundedSeq({"stdout", "stderr"}, 3)

=============================================================================
