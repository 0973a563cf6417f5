----------------------------- MODULE MCLibrary ------------------------------
(***************************************************************************)
(* The parts of the library and the daemon that share no state with one    *)
(* another, in one instance: a behaviour runs one part, chosen at the      *)
(* start, and the others stay as they are.  The server's two caches do not *)
(* meet either; a behaviour of the server gets lines about one of them.    *)
(***************************************************************************)
EXTENDS CounterMeter, MaxGaugeMeter, DistMeter, MonotonicCounter, MonotonicCounterUint,
        MonotonicSampled, HttpClient, Tags, LineProtocol, Payload, CompressedBuffer,
        PercentileBuckets, MCAdmin, MCServer

CONSTANT LibraryParts  \* the parts this instance runs

VARIABLE part   \* the one this behaviour runs

libraryVars ==
  <<part, counterVars, maxGaugeVars, distVars, monoVars, uintVars, sampledVars, httpVars,
    tagsVars, lineVars, payloadVars, bufferVars, amount, adminVars, serverVars>>

\* Where a part has several initial states, the others take the first of them.
LibraryInit ==
  /\ part \in LibraryParts
  /\ part = "payload" \/ batch = <<CHOOSE m \in Measured : TRUE>>
  /\ part = "uint" \/ uintFalling = FALSE
  /\ CounterInit /\ MaxGaugeInit /\ DistInit /\ MonoInit /\ UintInit /\ SampledInit /\ HttpInit
  /\ TagsInit /\ LineInit /\ PayloadInit /\ BufferInit /\ BucketInit /\ AdminInit /\ ServerInit

LibraryNext ==
  /\ part' = part
  /\ IF part = "counter" THEN CounterNext ELSE UNCHANGED counterVars
  /\ IF part = "maxgauge" THEN MaxGaugeNext ELSE UNCHANGED maxGaugeVars
  /\ IF part = "dist" THEN DistNext ELSE UNCHANGED distVars
  /\ IF part = "mono" THEN MonoNext ELSE UNCHANGED monoVars
  /\ IF part = "uint" THEN UintNext ELSE UNCHANGED uintVars
  /\ IF part = "sampled" THEN SampledNext ELSE UNCHANGED sampledVars
  /\ IF part = "http" THEN HttpNext ELSE UNCHANGED httpVars
  /\ IF part = "tags" THEN TagsNext ELSE UNCHANGED tagsVars
  /\ IF part = "lines" THEN LineNext ELSE UNCHANGED lineVars
  /\ IF part = "payload" THEN PayloadNext ELSE UNCHANGED payloadVars
  /\ IF part = "buffer" THEN BufferNext ELSE UNCHANGED bufferVars
  /\ IF part = "buckets" THEN RecordNext ELSE UNCHANGED amount
  /\ IF part = "admin" THEN AdminNext ELSE UNCHANGED adminVars
  /\ IF part \in Ids THEN ServerNext /\ About(part) ELSE UNCHANGED serverVars

\* The fairness of the one part with a liveness property.
LibrarySpec == LibraryInit /\ [][LibraryNext]_libraryVars /\ HttpFairness

MCDeltas == {-1, 0, 1, 3}

MCAtlasChars == [i \in 1..4 |-> IF i = 4 THEN 2 ELSE i]

MCCommonTags == <<<<"c", "v">>>>
MCMeasured ==
  {[name |-> "n", tags |-> <<<<"statistic", "count">>>>, value |-> 1],
   [name |-> "c", tags |-> <<<<"n", "statistic">>>>, value |-> 2]}

\* Every part is in a state of its type.
LibraryTypeOK ==
  /\ CounterTypeOK /\ MaxGaugeTypeOK /\ DistTypeOK /\ MonoTypeOK /\ UintTypeOK /\ SampledTypeOK
  /\ HttpTypeOK /\ TagsTypeOK /\ LineTypeOK /\ PayloadTypeOK /\ BufferTypeOK /\ BucketTypeOK
  /\ AdminTypeOK /\ ServerTypeOK
=============================================================================
