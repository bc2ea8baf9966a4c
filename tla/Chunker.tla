------------------------------- MODULE Chunker -------------------------------
(***************************************************************************)
(* How a document is cut into chunks (src/internal/chunker/chunker.go): at *)
(* its H1 and H2 headers, or by size where it has none, and which chunk is *)
(* the parent of which.                                                    *)
(*                                                                         *)
(* Lines are numbered from 1 (the code's from 0).  "cut" has the three     *)
(* settings: max, min and overlap, in bytes.                               *)
(***************************************************************************)
EXTENDS Integers, FiniteSetsExt, Lists

\* The length of lines with a newline after each.
Bytes(lines) ==
    LET upTo[i \in 0..Len(lines)] == IF i = 0 THEN 0 ELSE upTo[i - 1] + lines[i].len + 1
    IN upTo[Len(lines)]

\* The length of lines joined by newlines.
JoinedLen(lines) == IF lines = <<>> THEN 0 ELSE Bytes(lines) - 1

ExtractHeaders(body) == {i \in DOMAIN body : body[i].level > 0}

\* Line numbers in their order, and the texts of those lines.
Ascending(body, lines) == Only([i \in DOMAIN body |-> i], lines)
Texts(body, lines) ==
    [k \in DOMAIN Ascending(body, lines) |-> body[Ascending(body, lines)[k]].text]

\* Every earlier header of a lower level, whether or not it encloses this one.
BuildHeaderPath(body, header) ==
    Texts(body, {i \in ExtractHeaders(body) :
                    i < header /\ body[i].level < body[header].level} \cup {header})

\* A chunk of the lines from..to.  The title stands for the path of a chunk
\* that does not begin with a header.
CreateChunk(body, from, to) ==
    [from |-> from, to |-> to, level |-> body[from].level,
     path |-> IF from \in ExtractHeaders(body) THEN BuildHeaderPath(body, from) ELSE <<>>,
     len |-> JoinedLen(SubSeq(body, from, to)),
     words |-> Texts(body, from..to)]

\* A chunk below the minimum is held back and joined by those that follow it.
MergeSmallChunks(chunks, cut) ==
    LET Absorb(a, b) == [a EXCEPT !.to = b.to, !.len = @ + 1 + b.len,
                                  !.words = @ \o b.words]
        Merge(acc, c) ==
            IF c.len >= cut.min THEN [out |-> acc.out \o acc.held \o <<c>>, held |-> <<>>]
            ELSE [acc EXCEPT !.held = IF @ = <<>> THEN <<c>> ELSE <<Absorb(@[1], c)>>]
        merged[k \in 0..Len(chunks)] ==
            IF k = 0 THEN [out |-> <<>>, held |-> <<>>] ELSE Merge(merged[k - 1], chunks[k])
        end == merged[Len(chunks)]
    IN end.out \o end.held

\* The last line of a section is taken for the next header.
SectionEnd_Early(body, starts, k) ==
    IF k = Len(starts) THEN Len(body) ELSE starts[k + 1] - 2

SectionEnd(body, starts, k) ==
    IF k = Len(starts) THEN Len(body) ELSE starts[k + 1] - 1

\* The sections, from each header to the line before the next.  One that is
\* shorter than the minimum is dropped here, so that none is left to merge.
SplitByHeaders(body, cut) ==
    LET starts == Ascending(body, {1} \cup ExtractHeaders(body))
        end(k) == SectionEnd(body, starts, k)
        sections == [k \in DOMAIN starts |-> CreateChunk(body, starts[k], end(k))]
    IN MergeSmallChunks(Only(sections, {c \in Range(sections) : c.len >= cut.min}), cut)

\* How many of the last lines from..to are repeated: as many as it takes to
\* reach the overlap.
CalculateOverlapLines(body, from, to, cut) ==
    IF cut.overlap <= 0 \/ to < from THEN 0
    ELSE Min({n \in 1..(to - from + 1) :
                n = to - from + 1 \/ Bytes(SubSeq(body, to - n + 1, to)) >= cut.overlap})

\* Lines are added until the next would exceed the maximum; the size is that of
\* the lines from..i-1, counted with or without the last newline.
SplitBySize(body, cut) ==
    LET Add(acc, i) ==
            LET lineSize == body[i].len + 1
                kept == CalculateOverlapLines(body, acc.from, i - 1, cut)
            IN IF acc.size + lineSize > cut.max /\ i - acc.from >= cut.min \div 50
               THEN [out |-> Append(acc.out, CreateChunk(body, acc.from, i - 1)),
                     from |-> i - kept,
                     size |-> IF kept > 0 THEN JoinedLen(SubSeq(body, i - kept, i))
                              ELSE lineSize]
               ELSE [acc EXCEPT !.size = @ + lineSize]
        added[i \in 0..Len(body)] ==
            IF i = 0 THEN [out |-> <<>>, from |-> 1, size |-> 0] ELSE Add(added[i - 1], i)
        end == added[Len(body)]
    IN Append(end.out, CreateChunk(body, end.from, Len(body)))

ChunkDocument(body, cut) ==
    IF ExtractHeaders(body) # {} THEN SplitByHeaders(body, cut)
    ELSE IF JoinedLen(body) > cut.max THEN SplitBySize(body, cut)
    ELSE <<CreateChunk(body, 1, Len(body))>>

\* The first of the earlier ones, not the latest.
Parent_First(chunks, k) ==
    LET above == {j \in DOMAIN chunks :
                    /\ chunks[j].level < chunks[k].level
                    /\ chunks[j].from < chunks[k].from}
    IN IF above = {} THEN 0
       ELSE CHOOSE j \in above : \A i \in above : chunks[i].from >= chunks[j].from

\* The parent of a chunk below a header is the latest earlier one of a lower
\* level; 0 is none.
Parent(chunks, k) ==
    LET above == {j \in DOMAIN chunks :
                    /\ chunks[j].level < chunks[k].level
                    /\ chunks[j].from < chunks[k].from}
    IN IF above = {} THEN 0
       ELSE CHOOSE j \in above : \A i \in above : chunks[i].from <= chunks[j].from

\* The id is a hash of the document and of all that the chunk is cut from.
GenerateChunkID(doc, chunk) ==
    [doc |-> doc, path |-> chunk.path, from |-> chunk.from, to |-> chunk.to,
     words |-> chunk.words]

ChunkWithHierarchy(doc, body, cut) ==
    LET chunks == ChunkDocument(body, cut)
        id(k) == GenerateChunkID(doc, chunks[k])
    IN [k \in DOMAIN chunks |->
            [id |-> id(k), level |-> chunks[k].level,
             parent |-> IF Parent(chunks, k) = 0 THEN <<>>
                        ELSE <<id(Parent(chunks, k))>>]]
==============================================================================
