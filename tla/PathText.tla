------------------------------- MODULE PathText -------------------------------
(***************************************************************************)
(* Paths as FilesystemInspector takes them (inspectors/filesystem.py): a    *)
(* path is the sequence of its components, the empty one standing for what *)
(* comes before a leading separator and between two of them.  Case and the *)
(* kind of separator are left out: the code folds both.                    *)
(***************************************************************************)
EXTENDS Integers, Sequences, SequencesExt, FiniteSets

CONSTANT
  Home      \* what "~" expands to

Empty == ""

Root == <<Empty>>

\* DANGEROUS_TARGETS, less those that lie below another one.
ProtectedTargets ==
  {<<Empty, name>> : name \in {"root", "etc", "sys", "proc", "boot", "bin", "sbin", "usr", "lib",
                            "lib64", "dev", "var", "applications", "system", "library"}}
  \cup {<<"c:", name>> : name \in {"windows", "system32", "programfiles", "program files",
                                   "programdata"}}

\* EXACT_ONLY_TARGETS.
ExactTargets == {Root, <<Empty, "home">>, <<"c:">>, <<"d:">>, <<"e:">>}

-----------------------------------------------------------------------------
\* Mutant: every empty component is kept.
KeepEmpty(stack, c) ==
  CASE c = "." -> stack
    [] c = Empty -> Append(stack, c)
    [] c = ".." -> IF stack # <<>> /\ Last(stack) # Empty THEN Front(stack) ELSE stack
    [] OTHER -> Append(stack, c)

\* One turn of the loop of normalize_path over the components.
Component(stack, c) ==
  CASE c = "." -> stack
    [] c = Empty -> IF stack = <<>> THEN <<Empty>> ELSE stack
    [] c = ".." -> IF stack # <<>> /\ Last(stack) # Empty THEN Front(stack) ELSE stack
    [] OTHER -> Append(stack, c)

Stacks(path) ==
  LET stack[i \in 0..Len(path)] == IF i = 0 THEN <<>> ELSE Component(stack[i - 1], path[i])
  IN stack

\* normalize_path; nothing left is the root, also of a relative path.
NormalizePath(path) ==
  LET stack  == Stacks(path)[Len(path)]
      result == IF stack = <<>> THEN Root ELSE stack
  IN IF result[1] = "~" THEN Home \o Tail(result) ELSE result

\* is_dangerous_target.
DangerousTarget(path) ==
  LET normal == NormalizePath(path)
  IN normal \in ExactTargets \/ \E target \in ProtectedTargets : IsPrefix(target, normal)

-----------------------------------------------------------------------------
\* The reference: of a rooted path, the names that no later ".." takes back.
NoNames == {Empty, ".", ".."}

Ups(path, i, j) == Cardinality({k \in (i + 1)..j : path[k] = ".."})

Downs(path, i, j) == Cardinality({k \in (i + 1)..j : path[k] \notin NoNames})

Remains(path, i) ==
  path[i] \notin NoNames /\ \A j \in (i + 1)..Len(path) : Ups(path, i, j) <= Downs(path, i, j)

ReferencePath(path) ==
  Root \o FlattenSeq([i \in DOMAIN path |-> IF Remains(path, i) THEN <<path[i]>> ELSE <<>>])
=============================================================================
