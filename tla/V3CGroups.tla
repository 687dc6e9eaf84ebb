------------------------------ MODULE V3CGroups ------------------------------
(***************************************************************************)
(* The two applications and the list of V3C units between them.            *)
(* The encoder codes a sequence group by group; the units of each group    *)
(* (parameter set, atlas data, occupancy, geometry and attribute videos)   *)
(* are appended to one sample stream that is written at the end.           *)
(* The decoder reads all units and cuts them into groups again.  A group   *)
(* has no end mark: the reader stops at the parameter set of the next one, *)
(* after it has parsed it into the store of the current group, and corrects*)
(* the statistics; the unit stays in the list and is parsed once more.     *)
(***************************************************************************)
EXTENDS Integers, Sequences

CONSTANTS
  GofSize,      \* groupOfFramesSize_
  MaxFrames,    \* bound: frames of the sequence that is asked for
  MaxMaps,      \* bound: maps of the geometry and attribute videos
  MaxParts,     \* bound: partitions of the attribute
  VpsIds,       \* parameter set ids are numbers modulo VpsIds (u(4) in the unit header)
  SizeChoices   \* bound: sizes of the units of a group, a function of the type

UnitTypes == {"VPS", "AD", "OVD", "GVD", "AVD"}

HeaderSize == 4   \* bytes of a V3C unit header

ASSUME SequenceAssumption == GofSize \in Nat \ {0} /\ MaxFrames \in Nat \ {0}
ASSUME StreamsAssumption  == MaxMaps \in Nat \ {0} /\ MaxParts \in Nat
ASSUME IdAssumption       == VpsIds \in Nat /\ VpsIds > 1
ASSUME SizeAssumption     == SizeChoices \subseteq [UnitTypes -> Nat]
                             /\ \A s \in SizeChoices, t \in UnitTypes : s[t] > HeaderSize

(* what the encoder was started with: the frames asked for and those on    *)
(* disk, and the layout of the videos                                      *)
Configs ==
  {c \in [frames : 1 .. MaxFrames, onDisk : 0 .. MaxFrames,
          maps : 1 .. MaxMaps, multi : BOOLEAN, parts : 0 .. MaxParts, aux : BOOLEAN] :
     c.multi => c.maps > 1}

VARIABLES
  config,
  phase,        \* "encode", "crashed", "group", "units", "rebuild", "done", "exited"
  start, end0,  \* the encoder's startFrameNumber and endFrameNumber0
  groups,       \* history: the groups coded, [ start, count ]
  ssvu,         \* the sample stream: all units
  encStat,      \* the encoder's statistics, one per group
  front,        \* units the decoder has popped from the list
  syntax,       \* the decoder's store for the current group
  numVPS,       \* parameter sets the reader has met in this call
  decStat,      \* the decoder's statistics
  frameNumber,  \* of the next frame the decoder writes
  decoded       \* history: what each call of PCCDecoder::decode was given

encVars == <<config, start, end0, groups, ssvu, encStat>>
decVars == <<front, syntax, numVPS, decStat, frameNumber, decoded>>
vars    == <<phase, encVars, decVars>>

MinOf(a, b) == IF a < b THEN a ELSE b
MaxOf(a, b) == IF a > b THEN a ELSE b

-----------------------------------------------------------------------------
(***************************************************************************)
(* The units of a group, in the order they are written.                    *)
(***************************************************************************)
Streams(c) == IF c.maps > 1 /\ c.multi THEN c.maps ELSE 1

Unit(g, t, part, map, aux, sizes) ==
  [gof |-> g, type |-> t, vps |-> g % VpsIds, part |-> part, map |-> map, aux |-> aux, size |-> sizes[t]]

(* one video per map or one for all, and one for the raw points *)
VideoUnits(g, t, part, c, sizes) ==
  [k \in 1 .. Streams(c) + (IF c.aux THEN 1 ELSE 0) |->
     IF k <= Streams(c) THEN Unit(g, t, part, k - 1, FALSE, sizes)
                        ELSE Unit(g, t, part, 0, TRUE, sizes)]

AttributeUnits(g, c, sizes) ==
  LET n == Len(VideoUnits(g, "AVD", 0, c, sizes))
  IN  [k \in 1 .. c.parts * n |-> VideoUnits(g, "AVD", (k - 1) \div n, c, sizes)[((k - 1) % n) + 1]]

GofUnits(g, c, sizes) ==
  <<Unit(g, "VPS", 0, 0, FALSE, sizes), Unit(g, "AD", 0, 0, FALSE, sizes), Unit(g, "OVD", 0, 0, FALSE, sizes)>>
  \o VideoUnits(g, "GVD", 0, c, sizes) \o AttributeUnits(g, c, sizes)

(* PCCVideoType: what a video is stored and looked up by.  The second part *)
(* is the number of the map, or                                            *)
AllMaps == -2
Raw     == -1

(* mutant: one type for the videos of all maps *)
VideoType_ForgetsMap(u, c) == <<u.type, IF u.aux THEN Raw ELSE AllMaps, u.part>>

VideoType(u, c) ==
  <<u.type, IF u.aux THEN Raw ELSE IF u.type # "OVD" /\ Streams(c) > 1 THEN u.map ELSE AllMaps, u.part>>

VideoTypes == {"OVD", "GVD", "AVD"} \X (AllMaps .. MaxMaps - 1) \X (0 .. MaxParts)

IsVideo(u) == u.type \in {"OVD", "GVD", "AVD"}

-----------------------------------------------------------------------------
(***************************************************************************)
(* PCCBitstreamStat: bytes per unit type and per video.                    *)
(***************************************************************************)
newGOF == [unit |-> [t \in UnitTypes |-> 0], video |-> [v \in VideoTypes |-> 0]]

(* the counters of a group after unit u, whose video has n bytes *)
Counted(stat, u, c, n) ==
  [unit  |-> [stat.unit EXCEPT ![u.type] = @ + u.size],
   video |-> IF IsVideo(u) THEN [stat.video EXCEPT ![VideoType(u, c)] = @ + n] ELSE stat.video]

(* a recursive function over the prefixes of the unit list *)
StatOf(us, c) ==
  LET upTo[n \in 0 .. Len(us)] ==
        IF n = 0 THEN newGOF ELSE Counted(upTo[n - 1], us[n], c, us[n].size - HeaderSize)
  IN  upTo[Len(us)]

-----------------------------------------------------------------------------
(***************************************************************************)
(* The encoder application.                                                *)
(***************************************************************************)
Init ==
  /\ config \in Configs
  /\ phase = "encode"
  /\ start = 0 /\ end0 = config.frames
  /\ groups = <<>> /\ ssvu = <<>> /\ encStat = <<>>
  /\ front = 0 /\ numVPS = 0 /\ frameNumber = 0
  /\ syntax = [vps |-> <<>>, active |-> 0, hls |-> <<>>]
  /\ decStat = <<>> /\ decoded = <<>>

(* the group's length after loading: all of it, or, where files are        *)
(* missing, anything from the frames that exist to one less than asked for *)
LoadedCounts(end) ==
  IF end <= config.onDisk THEN {end - start}
  ELSE MaxOf(config.onDisk - start, 0) .. end - start - 1

(* one turn of the encoder's loop *)
EncodeGroup ==
  /\ phase = "encode" /\ start < end0
  /\ LET end == MinOf(start + GofSize, end0)
         g   == Len(groups)
     IN  \E count \in LoadedCounts(end), sizes \in SizeChoices :
           /\ count > 0
           /\ groups'  = Append(groups, [start |-> start, count |-> count])
           /\ ssvu'    = ssvu \o GofUnits(g, config, sizes)
           /\ encStat' = Append(encStat, StatOf(GofUnits(g, config, sizes), config))
           /\ start'   = start + count
           /\ end0'    = IF count < end - start THEN start + count ELSE end0
  /\ UNCHANGED <<config, phase, decVars>>

(* PCCEncoder::encode returns 0 for a group without frames and leaves the  *)
(* store without an atlas; the writer then takes the first entry of it     *)
EncodeEmptyGroup ==
  /\ phase = "encode" /\ start < end0
  /\ 0 \in LoadedCounts(MinOf(start + GofSize, end0))
  /\ phase' = "crashed"
  /\ UNCHANGED <<encVars, decVars>>

WriteStream ==
  /\ phase = "encode" /\ start >= end0
  /\ phase' = "group"
  /\ UNCHANGED <<encVars, decVars>>

-----------------------------------------------------------------------------
(***************************************************************************)
(* The decoder.                                                            *)
(***************************************************************************)
(* mutant: the entries are allocated anew *)
allocateAtlasHLS_Clears(hls, n) == [i \in 1 .. n |-> [ad |-> <<>>, videos |-> <<>>]]

(* std::vector::resize: the entries below the new size are kept *)
allocateAtlasHLS(hls, n) ==
  [i \in 1 .. n |-> IF i <= Len(hls) THEN hls[i] ELSE [ad |-> <<>>, videos |-> <<>>]]

(* indices of the entries of a list that a video type is found under *)
Entries(videos, v) == {i \in DOMAIN videos : VideoType(videos[i], config) = v}

(* mutant: the parameter set parsed last *)
getVps_Last(s) == s.vps[Len(s.vps)]

(* the first parameter set with the active id *)
getVps(s) ==
  s.vps[CHOOSE i \in DOMAIN s.vps :
          s.vps[i].id = s.active /\ \A j \in DOMAIN s.vps : s.vps[j].id = s.active => i <= j]

(* the first video of a type *)
getVideoBitstream(videos, v) ==
  videos[CHOOSE i \in Entries(videos, v) : \A j \in Entries(videos, v) : i <= j]

(* v3cUnit: header and payload of u parsed into the store *)
Parsed(s, u) ==
  IF u.type = "VPS"
    THEN [s EXCEPT !.vps = Append(@, [gof |-> u.gof, id |-> u.vps]), !.hls = allocateAtlasHLS(@, 1)]
  ELSE IF u.type = "AD"
    THEN [s EXCEPT !.active = u.vps, !.hls[1].ad = Append(@, u)]
  ELSE [s EXCEPT !.active = u.vps, !.hls[1].videos = Append(@, u)]

(* the statistics count the first video stored under the unit's type *)
VideoBytes(s, u) ==
  IF IsVideo(u) THEN getVideoBitstream(s.hls[1].videos, VideoType(u, config)).size - HeaderSize ELSE 0

CurrentStat(stat) == decStat' = [decStat EXCEPT ![Len(decStat)] = stat]

(* a new context, and the start of PCCBitstreamReader::decode *)
StartGroup ==
  /\ phase = "group"
  /\ syntax' = [vps |-> <<>>, active |-> 0, hls |-> <<>>]
  /\ numVPS' = 0
  /\ decStat' = Append(decStat, newGOF)
  /\ phase' = "units"
  /\ UNCHANGED <<encVars, front, frameNumber, decoded>>

(* mutant: the bytes of the next group's parameter set stay in the count *)
LookAheadStat_Kept(stat, u) == stat

(* the bytes of the next group's parameter set are taken out of the count *)
LookAheadStat(stat, u) == [stat EXCEPT !.unit["VPS"] = @ - u.size]

(* mutant: two parameter sets are taken into one group *)
EndsGroup_ThirdVps(u, n) == u.type = "VPS" /\ n > 2

(* unit u, the n-th parameter set of this call, belongs to the next group: *)
(* it ends this one and stays in the list                                  *)
EndsGroup(u, n) == u.type = "VPS" /\ n > 1

(* one turn of the loop over the units *)
DecodeUnit ==
  /\ phase = "units" /\ front < Len(ssvu)
  /\ LET u    == ssvu[front + 1]
         s    == Parsed(syntax, u)
         n    == IF u.type = "VPS" THEN numVPS + 1 ELSE numVPS
         stat == Counted(decStat[Len(decStat)], u, config, VideoBytes(s, u))
     IN  /\ syntax' = s
         /\ numVPS' = n
         /\ front'  = IF EndsGroup(u, n) THEN front ELSE front + 1
         /\ CurrentStat(IF EndsGroup(u, n) THEN LookAheadStat(stat, u) ELSE stat)
         /\ phase'  = IF EndsGroup(u, n) THEN "rebuild" ELSE "units"
  /\ UNCHANGED <<encVars, frameNumber, decoded>>

EndOfStream ==
  /\ phase = "units" /\ front = Len(ssvu)
  /\ phase' = "rebuild"
  /\ UNCHANGED <<encVars, decVars>>

(* the videos PCCDecoder::decode asks the store for *)
NeededVideos(c) ==
  LET streams == (IF c.multi THEN 0 .. c.maps - 1 ELSE {AllMaps}) \cup (IF c.aux THEN {Raw} ELSE {})
  IN  {<<"OVD", AllMaps, 0>>} \cup {"GVD"} \X streams \X {0} \cup {"AVD"} \X streams \X (0 .. c.parts - 1)

(* the application gives up unless there is one atlas (checkProfile), and  *)
(* getVideoBitstream exits the process when a video is missing             *)
Rejected ==
  \/ Len(syntax.hls) # 1
  \/ \E v \in NeededVideos(config) : Entries(syntax.hls[1].videos, v) = {}

(* the number after the frames of a group, written or not *)
NextFrameNumber(n, count) == n + count

Rebuild ==
  /\ phase = "rebuild"
  /\ LET atlas == syntax.hls[1]
         count == groups[atlas.ad[1].gof + 1].count
     IN  IF Rejected
           THEN /\ phase' = "exited"
                /\ UNCHANGED <<frameNumber, decoded>>
           ELSE /\ decoded' = Append(decoded,
                     [vps    |-> getVps(syntax).gof,
                      ad     |-> atlas.ad,
                      video  |-> [v \in NeededVideos(config) |-> getVideoBitstream(atlas.videos, v)],
                      number |-> frameNumber])
                /\ frameNumber' = NextFrameNumber(frameNumber, count)
                /\ phase' = IF front < Len(ssvu) THEN "group" ELSE "done"
  /\ UNCHANGED <<encVars, front, syntax, numVPS, decStat>>

Next ==
  \/ EncodeGroup
  \/ EncodeEmptyGroup
  \/ WriteStream
  \/ StartGroup
  \/ DecodeUnit
  \/ EndOfStream
  \/ Rebuild

(* each program is one thread that never waits *)
Spec == Init /\ [][Next]_vars /\ WF_vars(Next)

-----------------------------------------------------------------------------
(***************************************************************************)
(* Properties.                                                             *)
(***************************************************************************)
StoreType ==
  /\ \A i \in DOMAIN syntax.vps : syntax.vps[i].id \in 0 .. VpsIds - 1
  /\ Len(syntax.hls) <= 1
  /\ numVPS \in 0 .. 2 /\ front \in 0 .. Len(ssvu)

(* the programs' variables stay in range; in particular the statistics     *)
(* never go below zero when the look-ahead is taken out of them            *)
TypeOK ==
  /\ config \in Configs
  /\ phase \in {"encode", "crashed", "group", "units", "rebuild", "done", "exited"}
  /\ start \in 0 .. MaxFrames /\ end0 \in start .. MaxFrames
  /\ frameNumber \in 0 .. MaxFrames
  /\ Len(encStat) = Len(groups) /\ Len(decStat) <= Len(groups)
  /\ \A k \in DOMAIN decStat, t \in UnitTypes : decStat[k].unit[t] \in Nat
  /\ StoreType

(* Every group reaches the reconstruction with its own parameter set, atlas*)
(* data and videos and nothing of another group, although the parameter set*)
(* of the next group is parsed into the same store before (decode, the     *)
(* numVPS counter, allocateAtlasHLS, getVps, getVideoBitstream).           *)
GroupsReassembled ==
  \A k \in DOMAIN decoded :
    /\ decoded[k].vps = k - 1
    /\ Len(decoded[k].ad) = 1 /\ decoded[k].ad[1].gof = k - 1
    /\ \A v \in NeededVideos(config) :
          decoded[k].video[v].gof = k - 1 /\ VideoType(decoded[k].video[v], config) = v

(* No video of a group hides another: the writer's units and the decoder's *)
(* requests number the types alike, each with one video (videoSubStream on *)
(* both sides, PCCDecoder::decode).                                        *)
VideosUnambiguous ==
  phase = "rebuild" =>
    \A v \in NeededVideos(config) :
      \E i \in DOMAIN syntax.hls[1].videos : Entries(syntax.hls[1].videos, v) = {i}

(* The decoder's statistics of a finished group are those of the encoder   *)
(* (setV3CUnitSize counts the look-ahead, overwriteV3CUnitSize removes it).*)
StatisticsAgree ==
  \A k \in DOMAIN decoded : decStat[k] = encStat[k]

(* A decoded frame is written, and compared with the source, under the     *)
(* number it was read with by the encoder.                                 *)
FrameNumbersAgree ==
  \A k \in DOMAIN decoded : decoded[k].number = groups[k].start

(* Every group that was coded is decoded, unless the encoder stops at an   *)
(* empty group and writes no stream.                                       *)
AllGroupsDecoded ==
  <>(phase = "crashed" \/ (phase = "done" /\ Len(decoded) = Len(groups)))

(* The two programs implement the delivery of groups. *)
DeliveredGroups ==
  [k \in DOMAIN decoded |->
     [start |-> decoded[k].number, count |-> groups[decoded[k].vps + 1].count]]

Delivery == INSTANCE GroupDelivery WITH coded <- groups, delivered <- DeliveredGroups

DeliverySpec == Delivery!Spec
=============================================================================
