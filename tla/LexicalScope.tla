---------------------------- MODULE LexicalScope ----------------------------
(***************************************************************************)
(* What nested routines promise, without frames, a display or a stack      *)
(* pointer: a routine that runs sees the variables of the activations it   *)
(* is nested in, those its caller saw them by, and its caller sees again   *)
(* what it saw before when the routine is done.                            *)
(*                                                                         *)
(* An environment is a sequence of places, the program's own variables     *)
(* first; a routine declared at depth k keeps the first k places of the    *)
(* environment it is called from and adds its own.                         *)
(***************************************************************************)
EXTENDS Naturals, Sequences

CONSTANT Places     \* where an activation can keep its variables

VARIABLES
  env,     \* the environment of the activation that runs
  outer    \* the environments of its callers, the first caller's first

svars == <<env, outer>>

SInit == env = <<>> /\ outer = <<>>

Call ==
  \E k \in 0 .. Len(env), a \in Places :
    /\ env' = Append(SubSeq(env, 1, k), a)
    /\ outer' = Append(outer, env)

Return ==
  /\ outer # <<>>
  /\ env' = outer[Len(outer)]
  /\ outer' = SubSeq(outer, 1, Len(outer) - 1)

SNext == Call \/ Return

SSpec == SInit /\ [][SNext]_svars
=============================================================================
