----------------------------- MODULE MCPreview -----------------------------
(***************************************************************************)
(* Instance of Preview for TLC: two tables, an image, an icon, and a log   *)
(* that is empty and so is fetched even after an exit frame.               *)
(***************************************************************************)
EXTENDS Preview

MCFiles == {"a.csv", "b.csv", "c.png", "d.ico", "e.log"}
MCExt == ("a.csv" :> "csv") @@ ("b.csv" :> "csv") @@ ("c.png" :> "image")
           @@ ("d.ico" :> "icon") @@ ("e.log" :> "log")
MCBlank == {"e.log"}
MCSnapshots == {MCFiles}

\* Tables of a page, of a page and a half and of two pages and a half.
MCRowCount == [s \in 1..2 |-> [f \in MCFiles |-> IF s = 1 /\ f = "a.csv" THEN 5
                                                 ELSE IF s = 2 /\ f = "a.csv" THEN 2 ELSE 3]]

\* -2, 0, 1/4, 1 1/4, 1 1/2, 5, 5 1/4 and 100: fractions around the baseline's
\* steps, and small values beside a great one.
MCPoints == {-8, 0, 1, 5, 6, 20, 21, 400}
=============================================================================
