-------------------------- MODULE CompressedBuffer --------------------------
(***************************************************************************)
(* CompressedBuffer (spectator/compressed_buffer.cc): bytes are collected  *)
(* in cur_, which is handed to zlib whenever it grows over a limit; zlib   *)
(* writes into dest_, which grows when room gets short.  The publisher     *)
(* uses a buffer again and again, with what earlier payloads left in       *)
(* dest_.  zlib is modelled by its contract: it keeps what it took in as   *)
(* long as it likes, turns one or more bytes into one unit of output, and  *)
(* returns when the input is consumed or the output is full.               *)
(***************************************************************************)
EXTENDS Totals, Sequences

CONSTANTS
  ChunkIn, OutSize, ChunkOut,  \* chunk_size_input_, out_size, chunk_size_output_
  MaxBytes,     \* bound: bytes appended to a payload
  MaxAppend,    \* bound: bytes of one Append
  MaxUnit,      \* bound: bytes that one unit of output stands for
  MaxPayloads   \* bound: payloads made with the buffer

ASSUME BufferAssumption ==
  /\ {ChunkIn, OutSize, MaxBytes, MaxAppend, MaxUnit, MaxPayloads} \subseteq Nat
  /\ ChunkOut \in Nat \ {0, 1}   \* with 1, half a chunk would be no room at all

VARIABLES
  bpc,      \* "unused", "append", "deflate" or "done"
  flush,    \* of the compress() that runs: "no_flush" or "finish"
  err,      \* what the last deflate() of this compress() returned
  cur,      \* cur_
  availIn,  \* the input zlib has not taken: stream.next_in, avail_in
  inside,   \* bytes zlib has taken and not written yet
  dest, dest_index,  \* dest_ and dest_index_
  total_out,         \* units zlib wrote for this payload
  appended,    \* the bytes appended to this payload
  payloads

bufferVars == <<bpc, flush, err, cur, availIn, inside, dest, dest_index, total_out, appended, payloads>>

\* A unit of output is the sequence of bytes it stands for; no byte is 0.
Trailer == <<0>>   \* the end of the stream

\* What units of output stand for one after the other.
Decoded(units) == Joined(units)

Fresh(n) == [i \in 1..n |-> <<>>]

BufferInit ==
  /\ bpc = "unused" /\ flush = "no_flush" /\ err = "ok"
  /\ cur = <<>> /\ availIn = <<>> /\ inside = <<>>
  /\ dest = Fresh(OutSize) /\ dest_index = 0 /\ total_out = 0 /\ appended = <<>> /\ payloads = 0

InitBuffer_keeps_index ==
  /\ bpc \in {"unused", "done"} /\ payloads < MaxPayloads
  /\ bpc' = "append" /\ cur' = <<>> /\ total_out' = 0 /\ appended' = <<>>
  /\ payloads' = payloads + 1 /\ err' = "ok"
  /\ UNCHANGED <<flush, availIn, inside, dest, dest_index>>

\* Init(): deflateInit2 also sets total_out to 0.
InitBuffer ==
  /\ bpc \in {"unused", "done"} /\ payloads < MaxPayloads
  /\ bpc' = "append" /\ cur' = <<>> /\ dest_index' = 0 /\ total_out' = 0 /\ appended' = <<>>
  /\ payloads' = payloads + 1 /\ err' = "ok"
  /\ UNCHANGED <<flush, availIn, inside, dest>>

\* compress(f): everything in cur_ is offered to zlib.
Compress(f, bytes) ==
  /\ bpc' = "deflate" /\ flush' = f /\ availIn' = bytes /\ err' = "ok"

\* Append of n bytes, and maybe_compress().
AppendBytes(n) ==
  LET bytes == cur \o [i \in 1..n |-> Len(appended) + i]
  IN /\ bpc = "append" /\ Len(appended) + n <= MaxBytes
     /\ appended' = appended \o [i \in 1..n |-> Len(appended) + i]
     /\ cur' = bytes
     /\ IF Len(bytes) > ChunkIn THEN Compress("no_flush", bytes) ELSE UNCHANGED <<bpc, flush, availIn, err>>
     /\ UNCHANGED <<inside, dest, dest_index, total_out, payloads>>

\* Result(): compress what is left and finish the stream.
Finish ==
  /\ bpc = "append"
  /\ Compress("finish", cur)
  /\ UNCHANGED <<cur, inside, dest, dest_index, total_out, appended, payloads>>

Slices(s) == UNION {{SubSeq(s, i, j) : j \in 1..Len(s)} : i \in 1..Len(s)}

\* The bytes of s as up to n units of output of one or more bytes each.
Units(s, n) ==
  IF s = <<>> THEN {<<>>}
  ELSE {u \in UNION {[1..k -> Slices(s)] : k \in 1..n} :
          /\ Decoded(u) = s /\ \A k \in DOMAIN u : Len(u[k]) \in 1..MaxUnit}

\* dest_ with room for half a chunk.
Grown == IF Len(dest) - dest_index < ChunkOut \div 2 THEN dest \o Fresh(ChunkOut) ELSE dest

\* deflate() writes the first n bytes of its input as the units u, with a trailer at
\* the end of the stream; it stops when the input is used up or the output is full.
deflate(n, u, last, taken) ==
  LET avail == Len(Grown) - dest_index
      input == inside \o availIn
      out == IF last THEN Append(u, Trailer) ELSE u
  IN /\ last => flush = "finish" /\ n = Len(input)
     /\ Len(out) <= avail
     /\ n <= Len(inside) + taken
     /\ taken = Len(availIn) \/ Len(out) = avail
     /\ flush = "finish" /\ ~last => Len(out) = avail
     /\ availIn' = SubSeq(availIn, taken + 1, Len(availIn))
     /\ inside' = SubSeq(input, n + 1, Len(inside) + taken)
     /\ dest' = [i \in DOMAIN Grown |->
                   IF i - dest_index \in DOMAIN out THEN out[i - dest_index] ELSE Grown[i]]
     /\ total_out' = total_out + Len(out)
     /\ err' = IF last THEN "stream_end" ELSE "ok"

\* deflate_chunk: room for the output, a call of deflate(), and dest_index_ after it.
deflate_chunk ==
  /\ bpc = "deflate"
  /\ err = "ok" /\ (availIn # <<>> \/ flush = "finish")
  /\ \E n \in 0..Len(inside \o availIn) :
       \E u \in Units(SubSeq(inside \o availIn, 1, n), Len(Grown) - dest_index) :
         \E last \in BOOLEAN, taken \in 0..Len(availIn) : deflate(n, u, last, taken)
  /\ dest_index' = total_out'
  /\ UNCHANGED <<bpc, flush, cur, appended, payloads>>

\* compress() returns: to Append, which clears cur_, or to Result.
Compressed ==
  /\ bpc = "deflate" /\ availIn = <<>>
  /\ flush = "finish" => err # "ok"
  /\ bpc' = IF flush = "finish" THEN "done" ELSE "append"
  /\ cur' = IF flush = "finish" THEN cur ELSE <<>>
  /\ UNCHANGED <<flush, err, availIn, inside, dest, dest_index, total_out, appended, payloads>>

BufferDone == bpc = "done" /\ payloads = MaxPayloads /\ UNCHANGED bufferVars

BufferNext ==
  \/ InitBuffer \/ (\E n \in 1..MaxAppend : AppendBytes(n)) \/ Finish
  \/ deflate_chunk \/ Compressed \/ BufferDone

BufferSpec == BufferInit /\ [][BufferNext]_bufferVars

-----------------------------------------------------------------------------
\* Types; what was written fits into dest_.
BufferTypeOK ==
  /\ bpc \in {"unused", "append", "deflate", "done"}
  /\ flush \in {"no_flush", "finish"} /\ err \in {"ok", "stream_end"}
  /\ dest_index \in 0..Len(dest) /\ payloads \in 0..MaxPayloads

\* What Result() returns is a complete stream of exactly the bytes appended since
\* Init(), in order, whatever zlib held back, however often dest_ was too small
\* and whatever an earlier payload left in it.
BufferDelivers ==
  bpc = "done" =>
    Decoded(SubSeq(dest, 1, total_out)) = appended \o Trailer
=============================================================================
