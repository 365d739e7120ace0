---------------------------- MODULE MCBootMedia ----------------------------
(***************************************************************************)
(* Machines with two disks and at most four FAT file systems: A is the     *)
(* boot medium, B another one.  Every subset of the file systems holds     *)
(* config files.  The labels of A2 and B2 begin with those of A1 and B1;   *)
(* logical partitions have a third label, so that there are also machines  *)
(* where no label is the beginning of another.                             *)
(***************************************************************************)
EXTENDS BootMedia

Gpt(entries) == [mbr |-> <<"gpt", "none", "none", "none">>, gpt |-> entries, logical |-> <<>>]

Pairs ==
    {<<Gpt(<<"fat", "other", "fat">>), Gpt(<<"fat", "fat">>)>>,
     <<Gpt(<<"fat", "none", "fat">>),
       [mbr |-> <<"fat", "gpt", "none", "none">>, gpt |-> <<"fat">>, logical |-> <<>>]>>,
     <<[mbr |-> <<"none", "extended", "none", "unlisted">>, gpt |-> <<>>,
        logical |-> <<"fat", "fat">>], Gpt(<<"fat">>)>>,
     <<Gpt(<<"fat", "fat">>),
       [mbr |-> <<"other", "extended", "none", "fat">>, gpt |-> <<>>,
        logical |-> <<"fat", "none", "other">>]>>,
     <<[mbr |-> <<"other", "fat", "gpt", "none">>, gpt |-> <<"none", "fat", "fat">>,
        logical |-> <<>>], Gpt(<<"fat">>)>>,
     <<Gpt(<<"fat", "unlisted", "fat">>), [mbr |-> <<>>, gpt |-> <<>>, logical |-> <<>>]>>}

LabelsOf(d, t) ==
    [p \in FatOn(d, t) |-> IF p[2] \in {0, 1, 4} THEN <<"K">>
                        ELSE IF p[2] \in {2, 3} THEN <<"K", "1">> ELSE <<"M">>]

MCMachines ==
    UNION {
        LET A == FatOn("A", t[1])
            B == FatOn("B", t[2])
            GptB == IF Contains(t[2].mbr, "gpt") THEN B ELSE {}
        IN  {[disks   |-> [d \in {"A", "B"} |-> IF d = "A" THEN t[1] ELSE t[2]],
              boot    |-> b, cfg |-> c, mounted |-> {b},
              earlier |-> e,
              label   |-> [m \in {"L", "C"} |->
                  IF m = "L" THEN LabelsOf("A", t[1]) @@ LabelsOf("B", t[2])
                  ELSE LabelsOf("B", t[2])]]
             : b \in A, c \in SUBSET (A \cup B), e \in {NoPartition} \cup GptB}
        : t \in Pairs}

MCLabels == {<<>>, <<"K">>, <<"K", "1">>, <<"X">>}
=============================================================================
