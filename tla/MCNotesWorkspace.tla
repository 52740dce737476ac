------------------------ MODULE MCNotesWorkspace ------------------------
EXTENDS NotesWorkspace

MCLinks == [n \in Notes |-> IF n = "n1" THEN {"i2"} ELSE IF n = "n2" THEN {"i1", "i3"} ELSE {}]
MCCorpus ==
    [f \in Files |->
        CASE f = "a" -> <<Entry(0, "n1", "i1"), Entry(1, "n2", None)>>
          [] f = "b" -> <<Blank, Entry(1, "n3", "i2")>>
          [] OTHER -> Absent]
=============================================================================
