---------------------------- MODULE PacketReader ----------------------------
(***************************************************************************)
(* The framed-packet reader and writer of src/pkg/protohytale/packet.go.   *)
(*                                                                         *)
(* A PacketWriter puts frames  {length, id, data}  on a byte stream; the   *)
(* stream hands them to a PacketReader in chunks of any size.  The reader  *)
(* keeps a growable buffer `buf` with `buffered` bytes in it, of which     *)
(* those from `offset` on are unread.  ensureBytes(n) compacts the unread  *)
(* bytes to the front, grows the buffer when n exceeds it, and calls Read  *)
(* until n bytes are available.                                            *)
(*                                                                         *)
(* Sizes are scaled down: the 8-byte header is two cells, the length cell  *)
(* and the id cell, and DefaultBufSize and MaxPacketSize are constants.    *)
(* A payload byte carries the ordinal of its packet, so bytes read at the  *)
(* wrong offset are told apart.                                            *)
(***************************************************************************)
EXTENDS Integers, Sequences, SequencesExt

CONSTANTS
    MaxPacketSize,   \* largest payload the reader accepts
    DefaultBufSize,  \* initial buffer size of NewPacketReader
    MaxPackets,      \* bound on the packets the writer sends
    MaxWritten,      \* largest payload the writer sends
    PacketIDs,       \* packet ids the writer uses
    EOFWithData,     \* Read may return the stream's last bytes with io.EOF
    MaxResets,       \* bound on Reset calls
    InitSizes        \* sizes given to NewPacketReaderSize

HeaderSize == 2

ASSUME DefaultBufSize >= HeaderSize
ASSUME MaxPacketSize \in Nat /\ MaxWritten \in Nat /\ MaxPackets \in Nat
ASSUME EOFWithData \in BOOLEAN

VARIABLES
    sent,       \* packets the writer has written, in order
    pipe,       \* bytes written and not yet returned by Read
    fin,        \* the writer has closed the stream
    buf,        \* pr.buf
    buffered,   \* pr.buffered
    offset,     \* pr.offset
    pc,         \* where the reader is in ReadPacket
    need,       \* the n of the ensureBytes call in progress
    cont,       \* where ReadPacket goes when that call returns
    delivered,  \* packets ReadPacket has returned
    status,     \* the error ReadPacket returned last, "none" if none
    resets,     \* Reset calls so far
    torn        \* a Write failed part-way: the stream ends inside a frame

vars == <<sent, pipe, fin, buf, buffered, offset, pc, need, cont, delivered,
          status, resets, torn>>

Packet == [id : PacketIDs, data : Seq(Nat)]

\* The bytes PacketWriter.Write puts on the stream: the header (length,
\* then id) and the payload.
Frame(p) == <<Len(p.data), p.id>> \o p.data

\* NewPacketReaderSize(size): a size below HeaderSize falls back to
\* DefaultBufSize.
NewPacketReaderSize(size) == IF size < HeaderSize THEN DefaultBufSize ELSE size

\* The reader comes from NewPacketReader (a DefaultBufSize buffer) or from
\* NewPacketReaderSize.
Init ==
    /\ sent = <<>>
    /\ pipe = <<>>
    /\ fin = FALSE
    /\ \E size \in {DefaultBufSize} \cup {NewPacketReaderSize(n) : n \in InitSizes} :
          buf = [i \in 1..size |-> 0]
    /\ buffered = 0
    /\ offset = 0
    /\ pc = "idle"
    /\ need = 0
    /\ cont = "idle"
    /\ delivered = <<>>
    /\ status = "none"
    /\ resets = 0
    /\ torn = FALSE

-----------------------------------------------------------------------------
(* Writer                                                                  *)

\* PacketWriter.Write(id, data): the header, then the payload if non-empty.
Write ==
    /\ ~fin
    /\ Len(sent) < MaxPackets
    /\ \E id \in PacketIDs, n \in 0..MaxWritten :
          LET p == [id |-> id, data |-> [i \in 1..n |-> Len(sent) + 1]] IN
          /\ sent' = Append(sent, p)
          /\ pipe' = pipe \o Frame(p)
    /\ UNCHANGED <<fin, buf, buffered, offset, pc, need, cont, delivered, status,
                   resets, torn>>

\* One of Write's two pw.w.Write calls fails after putting k bytes of the
\* frame on the stream; Write returns the error, the packet is not sent,
\* and the broken stream carries nothing after it.  The id of a frame that
\* never completes is never read, so one id stands for all.
WriteTorn ==
    /\ ~fin
    /\ Len(sent) < MaxPackets
    /\ \E n \in 0..MaxWritten :
          LET p == [id |-> CHOOSE id \in PacketIDs : TRUE,
                    data |-> [i \in 1..n |-> Len(sent) + 1]] IN
          \E k \in 1..(Len(Frame(p)) - 1) :
             pipe' = pipe \o SubSeq(Frame(p), 1, k)
    /\ fin' = TRUE
    /\ torn' = TRUE
    /\ UNCHANGED <<sent, buf, buffered, offset, pc, need, cont, delivered, status,
                   resets>>

\* The writer closes its side of the stream.
CloseWrite ==
    /\ ~fin
    /\ fin' = TRUE
    /\ UNCHANGED <<sent, pipe, buf, buffered, offset, pc, need, cont, delivered,
                   status, resets, torn>>

-----------------------------------------------------------------------------
(* Reader                                                                  *)

\* Buffered(): the bytes buffered and not yet consumed.
Buffered == buffered - offset

(* Mutations of ensureBytes, each a plausible slip in packet.go:196-219.  *)
EnsureBytesWith(n, next, enough, resetOffset, copyOnGrow, fitN) ==
    LET available == buffered - offset
        compacted == IF offset > 0
                     THEN [i \in 1..Len(buf) |->
                              IF i <= available THEN buf[offset + i] ELSE buf[i]]
                     ELSE buf
        newSize   == IF fitN /\ 2 * Len(buf) < n THEN n ELSE 2 * Len(buf)
        grown     == IF n > Len(buf)
                     THEN [i \in 1..newSize |->
                              IF copyOnGrow /\ i <= available THEN compacted[i] ELSE 0]
                     ELSE compacted
    IN
    /\ need' = n
    /\ cont' = next
    /\ IF enough
       THEN /\ pc' = next
            /\ UNCHANGED <<buf, buffered, offset>>
       ELSE /\ buf' = grown
            /\ buffered' = available
            /\ offset' = IF resetOffset THEN 0 ELSE offset
            /\ pc' = "fill"

\* Compaction forgets pr.offset = 0.
EnsureBytesKeepsOffset(n, next) ==
    EnsureBytesWith(n, next, buffered - offset >= n, FALSE, TRUE, TRUE)

\* Growth forgets to copy the unread bytes into the new buffer.
EnsureBytesGrowsEmpty(n, next) ==
    EnsureBytesWith(n, next, buffered - offset >= n, TRUE, FALSE, TRUE)

\* The early return tests available > n.
EnsureBytesStrict(n, next) ==
    EnsureBytesWith(n, next, buffered - offset > n, TRUE, TRUE, TRUE)

\* Growth doubles the buffer without raising it to n.
EnsureBytesDoubleOnly(n, next) ==
    EnsureBytesWith(n, next, buffered - offset >= n, TRUE, TRUE, FALSE)

\* ensureBytes(n) up to its read loop: done at once when n bytes are
\* available; otherwise the unread bytes are moved to the front and the
\* buffer is grown to max(2*len, n) when n exceeds it.  `next` is where
\* ReadPacket goes once the bytes are there.
EnsureBytes(n, next) ==
    LET available == Buffered
        compacted == IF offset > 0
                     THEN [i \in 1..Len(buf) |->
                              IF i <= available THEN buf[offset + i] ELSE buf[i]]
                     ELSE buf
        newSize   == IF 2 * Len(buf) < n THEN n ELSE 2 * Len(buf)
        grown     == IF n > Len(buf)
                     THEN [i \in 1..newSize |->
                              IF i <= available THEN compacted[i] ELSE 0]
                     ELSE compacted
    IN
    /\ need' = n
    /\ cont' = next
    /\ IF available >= n
       THEN /\ pc' = next
            /\ UNCHANGED <<buf, buffered, offset>>
       ELSE /\ buf' = grown
            /\ buffered' = available
            /\ offset' = 0
            /\ pc' = "fill"

\* ReadPacket, or ReadPacketNoCopy, starts with ensureBytes(HeaderSize);
\* from here on the slice of an earlier ReadPacketNoCopy is no longer valid.
\* The two calls run the same ensureBytes and header steps and differ only
\* at the end, so which of them it is shows in the extract step.
ReadPacketStart ==
    /\ pc = "idle"
    /\ status = "none"
    /\ EnsureBytes(HeaderSize, "header")
    /\ UNCHANGED <<sent, pipe, fin, delivered, status, resets, torn>>

ReadFill ==
    /\ pc = "fill"
    /\ \E nr \in 0..(Len(buf) - buffered) :
          /\ nr <= Len(pipe)
          /\ LET eof == fin /\ nr = Len(pipe) /\ (nr = 0 \/ EOFWithData)
                 nb  == buffered + nr
             IN
             /\ nr > 0 \/ eof
             /\ buf' = [i \in 1..Len(buf) |->
                          IF buffered < i /\ i <= nb THEN pipe[i - buffered] ELSE buf[i]]
             /\ buffered' = nb
             /\ pipe' = SubSeq(pipe, nr + 1, Len(pipe))
             /\ IF eof
                THEN /\ pc' = "failed"
                     /\ status' = IF nb > 0 /\ nb < need THEN "unexpected_eof" ELSE "eof"
                ELSE /\ pc' = IF nb >= need THEN cont ELSE "fill"
                     /\ UNCHANGED status
    /\ UNCHANGED <<sent, fin, offset, need, cont, delivered, resets, torn>>


\* The header is in: length and id are decoded; a length above
\* MaxPacketSize fails with ErrPacketTooLarge, otherwise ReadPacket goes on
\* with ensureBytes(HeaderSize + length).
ParseHeader ==
    LET length == buf[offset + 1] IN
    /\ pc = "header"
    /\ IF length > MaxPacketSize
       THEN /\ pc' = "failed"
            /\ status' = "too_large"
            /\ UNCHANGED <<buf, buffered, offset, need, cont>>
       ELSE /\ EnsureBytes(HeaderSize + length, "extract")
            /\ UNCHANGED status
    /\ UNCHANGED <<sent, pipe, fin, delivered, resets, torn>>

\* The whole frame is in: its payload is copied out, offset moves past the
\* frame, and ReadPacket returns the packet.
ExtractPacket ==
    LET length == buf[offset + 1]
        p      == [id |-> buf[offset + 2],
                   data |-> SubSeq(buf, offset + HeaderSize + 1,
                                   offset + HeaderSize + length)]
    IN
    /\ pc = "extract"
    /\ delivered' = Append(delivered, p)
    /\ offset' = offset + HeaderSize + length
    /\ pc' = "idle"
    /\ UNCHANGED <<sent, pipe, fin, buf, buffered, need, cont, status, resets, torn>>

\* ReadPacketNoCopy's end: data = pr.buf[pr.offset+HeaderSize :
\* pr.offset+totalSize], a slice of the reader's buffer, not a copy; then
\* offset moves past the frame.
ExtractPacketNoCopy ==
    LET length == buf[offset + 1] IN
    /\ pc = "extract"
    /\ delivered' = Append(delivered,
                           [id |-> buf[offset + 2],
                            data |-> SubSeq(buf, offset + HeaderSize + 1,
                                            offset + HeaderSize + length)])
    /\ offset' = offset + HeaderSize + length
    /\ pc' = "idle"
    /\ UNCHANGED <<sent, pipe, fin, buf, buffered, need, cont, status, resets, torn>>

\* Reset(r), between calls: a new stream, nothing buffered; the buffer,
\* grown or not, is kept with whatever bytes it holds.
Reset ==
    /\ pc \in {"idle", "failed"}
    /\ resets < MaxResets
    /\ resets' = resets + 1
    /\ sent' = <<>>
    /\ pipe' = <<>>
    /\ fin' = FALSE
    /\ buffered' = 0
    /\ offset' = 0
    /\ pc' = "idle"
    /\ need' = 0
    /\ cont' = "idle"
    /\ delivered' = <<>>
    /\ status' = "none"
    /\ torn' = FALSE
    /\ UNCHANGED buf

-----------------------------------------------------------------------------

Next ==
    \/ Write \/ WriteTorn \/ CloseWrite
    \/ ReadPacketStart \/ ReadFill \/ ParseHeader
    \/ ExtractPacket \/ ExtractPacketNoCopy \/ Reset

Spec == Init /\ [][Next]_vars

-----------------------------------------------------------------------------
(* Properties                                                              *)

TypeOK ==
    /\ sent \in Seq(Packet)
    /\ pipe \in Seq(Nat)
    /\ fin \in BOOLEAN
    /\ buf \in Seq(Nat)
    /\ buffered \in 0..Len(buf)
    /\ offset \in 0..buffered
    /\ pc \in {"idle", "fill", "header", "extract", "failed"}
    /\ need \in Nat
    /\ cont \in {"idle", "header", "extract"}
    /\ delivered \in Seq(Packet)
    /\ status \in {"none", "eof", "unexpected_eof", "too_large"}
    /\ resets \in 0..MaxResets
    /\ torn \in BOOLEAN

\* Split resilience: however the stream is cut into Read results, the
\* packets ReadPacket returns are the packets written, in order, with their
\* ids and payloads intact.
DeliveredInOrder ==
    IsPrefix(delivered, sent)

\* ReadPacket reports the clean end of the stream (io.EOF) only after it
\* has returned every packet the writer wrote before closing the stream.
CleanEOFComplete ==
    status = "eof" => fin /\ delivered = sent

ReadsHaveRoom ==
    pc = "fill" => need <= Len(buf) /\ buffered < Len(buf)

\* The buffer never grows past MaxPacketSize + HeaderSize, the largest
\* frame the reader accepts.
BufferBounded ==
    Len(buf) <= MaxPacketSize + HeaderSize

=============================================================================
