---------------------------- MODULE MCMergePaths ----------------------------
(* Values for MergePaths: two of every shape, equal and unequal in each field. *)
EXTENDS MergePaths

PathValues ==
    {Concrete(1, "INT"), Concrete(1, "POINTER"), Concrete(2, "INT"),
     Symbolic(<<"arg", 0>>), Symbolic(<<"ret", 1>>),
     MutatedRegion("arg0", "ecx"), MutatedRegion("arg0", "edx"), MutatedRegion("arg1", "ecx"),
     MemoryRef(1, Concrete(1, "INT")), MemoryRef(1, Concrete(2, "INT")),
     MemoryRef(1, Unknown("MEMORY_READ_FAILED")), MemoryRef(2, Concrete(1, "INT")),
     Unknown("UNSUPPORTED_INSTRUCTION")}

=============================================================================
