------------------------ MODULE MCRecordingDownload ------------------------
(* Instances of RecordingDownload for TLC. *)
EXTENDS RecordingDownload, TLC

CONSTANTS r1, r2, F, uA, uB, uC, uP    \* recordings; units of their files

\* Two minutes of recordings with a gap, notifications inside, between and after them.
MCStart == r1 :> 1 @@ r2 :> 5
MCEnd == r1 :> 3 @@ r2 :> 7
Names2 == r1 :> "n1" @@ r2 :> "n2"
MCContent == r1 :> <<F, uA, uB, uC>> @@ r2 :> <<F, uB>>

Page(files, finished) == [files |-> files, finished |-> finished]
\* One page; two pages; a list longer than MaxPages; one that needs its empty last page.
MCListings ==
    {<<Page({r1, r2}, "yes")>>,
     <<Page({r1}, "no"), Page({r1, r2}, "no"), Page({}, "no")>>,
     <<Page({r2, r1}, "unknown"), Page({}, "unknown")>>}

Answer(code, size, known) ==
    [cmd |-> 13, code |-> code, size |-> size, handle |-> known, data |-> << >>, bytes |-> 1]
Chunk(code, data) ==
    [cmd |-> 8, code |-> code, size |-> 0, handle |-> FALSE, data |-> data,
     bytes |-> Len(data)]

\* A media header before the file, and a completion code behind it.
Whole ==
    {<<Answer(200, 4, TRUE), Chunk(200, <<uP, F>>), Chunk(0, <<uA, uB>>), Chunk(200, <<uC>>),
       Chunk(201, << >>)>>}

\* Ended early; too much data; too large; an answer without handle; a refusal.  For the other
\* recording no size; no MP4 head; an error code in the middle of the data.
MCScripts == r1 :> Whole \union
    {<<Answer(200, 4, TRUE), Chunk(200, <<F, uA>>), Chunk(201, << >>), Chunk(0, <<uB, uC>>)>>,
     <<Answer(200, 4, TRUE), Chunk(200, <<F, uA, uB, uC>>), Chunk(200, <<uB>>)>>,
     <<Answer(200, 9, TRUE), Chunk(200, <<F, uA, uB, uC, uA, uB, uC>>), Chunk(200, <<uA, uB>>)>>,
     <<Answer(200, 4, FALSE)>>,
     <<Answer(400, 0, FALSE)>>}
  @@ r2 :>
    {<<Answer(0, 2, TRUE), Chunk(200, <<F, uB>>)>>,
     <<Answer(200, 0, TRUE), Chunk(200, <<F>>), Chunk(400, <<uB>>)>>,
     <<Answer(200, 2, TRUE), Chunk(200, <<uA, uB>>)>>,
     <<Answer(200, 2, TRUE), Chunk(200, <<F>>), Chunk(500, <<uB>>), Chunk(200, <<uB>>)>>}

AllScripts == MCScripts[r1] \union MCScripts[r2]
MCFrames == UNION {{s[i] : i \in DOMAIN s} : s \in AllScripts}

\* What was sent before each frame, and the end.
Sent(s) ==
    LET sent[k \in 0 .. Len(s)] ==
            IF k = 0 THEN << >>
            ELSE sent[k - 1] \o IF CarriesData(s[k]) THEN s[k].data ELSE << >>
    IN  sent

\* The cameras of this instance are those the theorems are about.
ASSUME CamerasAreHonest ==
    /\ NothingFollows
    /\ \A r \in Recordings : \A s \in ScriptsOf[r] :
          LET stream == Sent(s)[Len(s)]
              at == [i \in 1 .. Len(s) + 1 |-> Len(Sent(s)[i - 1])]
          IN  /\ Honest(r, s, stream, at)
              /\ s \in WholeScripts => SendsAll(r, s, stream, at)
=============================================================================
