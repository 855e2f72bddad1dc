-------------------------- MODULE MCImageVariants --------------------------
(***************************************************************************)
(* Instance of ImageVariants for TLC: names that share no variant, that    *)
(* share both, and one that is the variant of another.                     *)
(***************************************************************************)
EXTENDS ImageVariants

CONSTANTS a, c1, c2, bad

Name(suffixes, ext) == [base |-> a, suffixes |-> suffixes, ext |-> ext]

MCMaySend ==
    ({Name(0, "png")} \X {c1, c2, bad})
       \cup {<<Name(0, "webp"), c1>>, <<Name(1, "webp"), c1>>}
=============================================================================
