-------------------------- MODULE MCWorkerRequest ---------------------------
EXTENDS WorkerRequest

Case(cited, listing, first, second) ==
    [cited |-> cited, listing |-> listing, text |-> <<first, second>>]

MCSource == {Case(TRUE, {1, 2}, "other", "match"), Case(TRUE, {1, 2}, "other", "other"),
             Case(FALSE, {1}, "blank", "none"), Case(TRUE, {1, 2}, "match", Absent)}

MCKnown == {{}, Cached}
=============================================================================
