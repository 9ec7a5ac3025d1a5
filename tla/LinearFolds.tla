------------------------------ MODULE LinearFolds ------------------------------
(***************************************************************************)
(* FoldLeft, FoldLeftDomain and FoldRight of SequencesExt, written so that *)
(* TLC takes one step per element: the library's folds choose each next    *)
(* index as the largest or smallest of a set.  The result so far is drawn  *)
(* from the set that holds it and nothing else, with one effect: TLC then  *)
(* has its value before it evaluates op, and not somewhere deep within op. *)
(***************************************************************************)
EXTENDS Integers, Sequences

TheElement(S) == CHOOSE x \in S : TRUE

FoldL(op(_, _), base, seq) ==
    LET Fold[k \in 0 .. Len(seq)] ==
            IF k = 0 THEN base ELSE TheElement({op(acc, seq[k]) : acc \in {Fold[k - 1]}})
    IN  Fold[Len(seq)]

FoldLDomain(op(_, _), base, seq) ==
    LET Fold[k \in 0 .. Len(seq)] ==
            IF k = 0 THEN base ELSE TheElement({op(acc, k) : acc \in {Fold[k - 1]}})
    IN  Fold[Len(seq)]

FoldR(op(_, _), seq, base) ==
    LET Fold[k \in 1 .. Len(seq) + 1] ==
            IF k = Len(seq) + 1 THEN base ELSE TheElement({op(seq[k], acc) : acc \in {Fold[k + 1]}})
    IN  Fold[1]

===============================================================================
