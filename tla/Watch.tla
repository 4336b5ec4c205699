-------------------------------- MODULE Watch --------------------------------
(* One watch of a live room (WatchSegments, chaturbate.go): it polls the       *)
(* playlists, fetches the segments that are new in them and hands them to      *)
(* handleSegmentForMonitor (channel_record.go), which writes them, with the    *)
(* init segments they need, and changes files.  Recorder has what starts a     *)
(* watch and what comes after it.                                              *)
EXTENDS Integers, Sequences, SequencesExt, FiniteSetsExt

CONSTANTS
    Modes,       \* video: one playlist; paired, timed: a second one for the sound
    Numberings,  \* do the names of the segments hold their numbers (SegmentSeq)?
    Offers,      \* sets of widths a room may offer
    Target,      \* the width asked for
    MaxSegment,  \* segments the room makes, for each mode (a bound)
    Window,      \* how many of them a playlist lists
    ErrorLimit,  \* consecutive failed polls
    StallLimit,  \* streamStallPolls
    FileLimit,   \* segments that make a file long enough
    MaxFaults,
    MaxWritten   \* what a watch without numbers writes before it stops polling (a bound)

ASSUME WatchAssumption ==
    /\ Modes \subseteq {"video", "paired", "timed"}
    /\ Numberings \subseteq BOOLEAN
    /\ Offers \subseteq SUBSET (Nat \ {0}) /\ Target \in Nat
    /\ MaxSegment \in [Modes -> Nat \ {0}]
    /\ {Window, ErrorLimit, StallLimit, FileLimit} \subseteq Nat \ {0}
    /\ {MaxFaults, MaxWritten} \subseteq Nat

VARIABLES
    mode, numbered,
    made, change, live,  \* the room: segments made; those after change need another init; on air
    width,               \* the variant of the stream the playlists are of
    ctx,                 \* the context: TRUE until it is cancelled
    pc, errors, stalled,
    listed,              \* what the last playlist of each track listed
    todo, got,           \* to be fetched; fetched but not written (timed)
    last, uri,           \* of each track: greatest number taken up, name last taken up
    map, base,           \* of each track: init in use, first time stamp
    init, fresh, file,   \* mp4InitSegment; nothing is in the current file; its number
    out,                 \* all that was written, in order
    seen, failed,        \* history: segments in usable lists; segments given up
    crossed,             \* history: a list of another variant began with what was taken up
    faults

room == <<mode, numbered, change, width>>
outside == <<made, live, ctx>>
counters == <<errors, stalled>>
tracks == <<listed, todo, got, last, uri, map, base>>
history == <<seen, failed, crossed>>
files == <<init, fresh, file, out>>
vars == <<room, outside, pc, counters, tracks, files, history, faults>>

Tracks == {"video", "audio"}
Of(m) == IF m = "video" THEN {"video"} ELSE Tracks
None == [t \in Tracks |-> {}]
Zero == [t \in Tracks |-> 0]
NoName == [t \in Tracks |-> <<0, 0>>]

Fault == faults < MaxFaults /\ faults' = faults + 1
Works == UNCHANGED faults
\* FetchStream: a room that is offline, away or private has no stream.
FetchStream == ctx /\ live
\* A request fails when cancelled, when the room is gone, or for once.
Fails == (~FetchStream /\ Works) \/ Fault

\* PickPlaylist: the width asked for, else the widest below it, else none.
Below(offer) == {w \in offer : w < Target}
PickPlaylist(offer) ==
    IF Target \in offer THEN Target ELSE IF Below(offer) = {} THEN 0 ELSE Max(Below(offer))
Picks == {PickPlaylist(offer) : offer \in Offers} \ {0}

Init ==
    /\ mode \in Modes /\ numbered \in Numberings
    /\ made \in {k \in 0..Window : k <= MaxSegment[mode]} /\ change \in 1..MaxSegment[mode]
    /\ width \in Picks
    /\ live = TRUE /\ ctx = TRUE
    /\ pc = "poll" /\ errors = 0 /\ stalled = 0
    /\ listed = None /\ todo = None /\ got = {}
    /\ last = Zero /\ uri = NoName /\ map = Zero /\ base = Zero
    /\ init = Zero /\ fresh = TRUE /\ file = 1 /\ out = <<>>
    /\ seen = None /\ failed = {} /\ crossed = FALSE /\ faults = 0
-----------------------------------------------------------------------------
(* Outside.                                                                    *)

MakeSegment ==
    /\ live /\ made < MaxSegment[mode] /\ made' = made + 1
    /\ UNCHANGED <<room, live, ctx, pc, counters, tracks, files, history, faults>>

GoesOffline ==
    /\ live /\ live' = FALSE
    /\ UNCHANGED <<room, made, ctx, pc, counters, tracks, files, history, faults>>

Cancel ==
    /\ ctx /\ ctx' = FALSE
    /\ UNCHANGED <<room, made, live, pc, counters, tracks, files, history, faults>>
-----------------------------------------------------------------------------
(* handleSegmentForMonitor: an init segment is remembered, a new file begins   *)
(* with the remembered one, a long file is changed.                            *)

\* The init segment the n-th segment of the variant needs.
MapOf(n) == 2 * width + (IF n > change THEN 1 ELSE 0)

InitOf(m) == [what |-> "init", n |-> 0, map |-> m, file |-> file]
Media(t, n) == [what |-> t, n |-> n, map |-> [Zero EXCEPT ![t] = MapOf(n)], file |-> file]
InFile == Cardinality({i \in DOMAIN out : out[i].file = file /\ out[i].what # "init"})

WriteMedia(segs) ==
    /\ segs # <<>> /\ fresh' = (InFile + Len(segs) >= FileLimit)
    /\ out' = out \o (IF fresh /\ init # Zero THEN <<InitOf(init)>> ELSE <<>>) \o segs
    /\ file' = IF fresh' THEN file + 1 ELSE file
    /\ UNCHANGED init

WriteInit(m) ==
    /\ init' = m /\ fresh' = FALSE /\ file' = file
    /\ out' = Append(out, InitOf(m))

\* A paused channel refuses the segment, and the disk may.
Refused == ((~ctx /\ Works) \/ Fault) /\ UNCHANGED files
-----------------------------------------------------------------------------
(* Polls.                                                                      *)

Listing == {n \in 1..made : n > made - Window}
\* A segment that left the playlist may be gone.
Expired(n) == n \notin Listing

Ends == pc' = "ended"
\* Mutant of Stalls: polls without a segment are not counted.
StallsUncounted == stalled' = stalled /\ pc' = "poll"
Stalls ==
    /\ stalled' = stalled + 1
    /\ IF stalled' >= StallLimit THEN Ends ELSE pc' = "poll"

Lists(t) ==
    /\ ctx /\ Works
    /\ listed' = [listed EXCEPT ![t] = Listing]

\* The number of a segment, 0 if it has none: that in its name, else, with one
\* playlist only, its media sequence number, which begins at 0.
Number(n) == IF numbered THEN n ELSE IF mode = "video" THEN n - 1 ELSE 0
\* The name, as far as a loop looks at it: not where the names hold numbers.
Name(n) == IF numbered THEN <<0, 0>> ELSE <<width, n>>

\* A segment with a number is known if it is not beyond the last one; one without
\* if its name was the last taken up, as the first of a list may be, but no other.
Known(t, n, list) ==
    IF Number(n) # 0 THEN Number(n) <= last[t] ELSE n = Min(list) /\ Name(n) = uri[t]
New(t, list) == {n \in list : ~Known(t, n, list)}

\* Without numbers two playlists are written again and again: a bound on that.
Bounded == numbered \/ Len(out) <= MaxWritten

PollVideo ==
    /\ pc = "poll" /\ mode = "video" /\ Bounded /\ Lists("video") /\ errors' = 0
    /\ todo' = [todo EXCEPT !["video"] = New("video", Listing)]
    /\ seen' = [seen EXCEPT !["video"] = @ \cup Listing]
    /\ crossed' = (crossed \/ (todo'["video"] \notin {{}, Listing} /\ map["video"] \div 2 # width))
    /\ IF todo'["video"] = {} THEN Stalls ELSE stalled' = 0 /\ pc' = "walk"
    /\ UNCHANGED <<room, outside, got, last, uri, map, base, files, failed>>

PollPair(t) ==
    /\ pc = (IF t = "video" THEN "poll" ELSE "audio") /\ mode # "video" /\ Bounded /\ Lists(t)
    /\ IF t = "video" THEN pc' = "audio" /\ UNCHANGED errors ELSE pc' = "inits" /\ errors' = 0
    /\ UNCHANGED <<room, outside, stalled, todo, got, last, uri, map, base, files, history>>

PollFails ==
    /\ pc \in {"poll", "audio"} /\ Fails
    /\ errors' = errors + 1
    /\ IF errors' >= ErrorLimit THEN Ends ELSE pc' = "poll"
    /\ UNCHANGED <<room, outside, stalled, tracks, files, history>>

\* Mutant of RefreshURL: the new playlists are watched afresh.
RefreshAfresh ==
    /\ pc \in {"poll", "audio"} /\ FetchStream /\ Fault
    /\ width' \in Picks /\ errors' = 0 /\ pc' = "poll" /\ last' = Zero /\ uri' = NoName
    /\ UNCHANGED <<mode, numbered, change, outside, stalled, listed, todo, got, map, base, files, history>>

\* A playlist that is forbidden is asked for anew, in the variant now picked.
RefreshURL ==
    /\ pc \in {"poll", "audio"} /\ FetchStream /\ Fault
    /\ width' \in Picks /\ errors' = 0 /\ pc' = "poll"
    /\ UNCHANGED <<mode, numbered, change, outside, stalled, tracks, files, history>>
-----------------------------------------------------------------------------
(* watchVideoOnlySegments: one segment after the other.                        *)

\* Only the first segment of a list, and the first after a change, bring the name
\* of their init along; one that is known is passed over with what it brings.
Brings(n) == n = Min(listed["video"]) \/ n = change + 1
\* Mutant of NeedsInit: only the first segment of a list is looked at.
NeedsInitOfList(n) == n = Min(listed["video"]) /\ MapOf(n) # map["video"]
NeedsInit(n) == Brings(n) /\ MapOf(n) # map["video"]

VideoInit ==
    /\ pc = "walk" /\ mode = "video"
    /\ LET n == Min(todo["video"])
           m == [Zero EXCEPT !["video"] = MapOf(n)]
       IN
       /\ NeedsInit(n)
       /\ \/ Works /\ WriteInit(m) /\ map' = m /\ UNCHANGED pc
          \/ ((Fails /\ UNCHANGED files) \/ Refused) /\ Ends /\ UNCHANGED map
    /\ UNCHANGED <<room, outside, counters, listed, todo, got, last, uri, base, history>>

\* What is taken up: its number, if it has one, and its name.
After(t, n) == IF Number(n) = 0 THEN last[t] ELSE Number(n)
Takes(n) ==
    /\ last' = [last EXCEPT !["video"] = After("video", n)]
    /\ uri' = [uri EXCEPT !["video"] = Name(n)]
Leaves(rest) == todo' = [todo EXCEPT !["video"] = rest]
Walks == pc' = IF todo'["video"] = {} THEN "poll" ELSE "walk"

\* Mutant of VideoSegment: an error gives up the rest of the list.
VideoSegmentOrEnd ==
    LET n == Min(todo["video"]) IN
    /\ pc = "walk" /\ mode = "video" /\ ~NeedsInit(n)
    /\ \/ /\ Works /\ Takes(n) /\ Leaves(todo["video"] \ {n}) /\ WriteMedia(<<Media("video", n)>>)
          /\ UNCHANGED failed
       \/ Fails /\ Takes(Max(todo["video"])) /\ Leaves({}) /\ failed' = failed \cup {<<"video", n>>}
          /\ UNCHANGED files
    /\ Walks
    /\ UNCHANGED <<room, outside, counters, listed, got, map, base, seen, crossed>>

\* A segment that is not found is passed over; after another error the rest of
\* the list waits for the next poll.
VideoSegment ==
    LET n == Min(todo["video"])
        rest == todo["video"] \ {n}
    IN
    /\ pc = "walk" /\ mode = "video" /\ ~NeedsInit(n) /\ Takes(n)
    /\ \/ /\ Works /\ Leaves(rest) /\ WriteMedia(<<Media("video", n)>>) /\ Walks
          /\ UNCHANGED failed
       \/ /\ Expired(n) /\ Works /\ Leaves(rest) /\ Walks
          /\ failed' = failed \cup {<<"video", n>>} /\ UNCHANGED files
       \/ /\ Fails /\ Leaves({}) /\ Walks
          /\ failed' = failed \cup {<<"video", n>>} /\ UNCHANGED files
       \/ Refused /\ Ends /\ UNCHANGED <<todo, failed>>
    /\ UNCHANGED <<room, outside, counters, listed, got, map, base, seen, crossed>>
-----------------------------------------------------------------------------
(* watchMuxedSegments.  Only the first segment of each list is looked at for   *)
(* its init; the two are combined into one.                                    *)

FirstMap(t) == IF listed[t] = {} THEN map[t] ELSE MapOf(Min(listed[t]))

CombinedInit ==
    LET m == [t \in Tracks |-> FirstMap(t)]
        new == [t \in Tracks |-> New(t, listed[t])]
    IN
    /\ pc = "inits"
    /\ \/ /\ \A t \in Tracks : m[t] # 0
          /\ Works /\ map' = m
          /\ IF m # map THEN WriteInit(m) ELSE UNCHANGED files
          /\ todo' = new
          /\ seen' = [t \in Tracks |-> seen[t] \cup listed[t]]
          /\ last' = [t \in Tracks |-> IF new[t] = {} THEN last[t] ELSE After(t, Max(new[t]))]
          /\ uri' = [t \in Tracks |-> IF new[t] = {} THEN uri[t] ELSE Name(Max(new[t]))]
          /\ IF new = None THEN Stalls ELSE stalled' = 0 /\ pc' = "walk"
       \/ /\ \E t \in Tracks : m[t] = 0
          /\ Works /\ map' = m /\ Stalls /\ UNCHANGED <<todo, last, uri, seen, files>>
       \/ /\ m # map /\ ((Fails /\ UNCHANGED files) \/ Refused)
          /\ Ends /\ UNCHANGED <<map, todo, last, uri, seen, stalled>>
    /\ UNCHANGED <<room, outside, errors, listed, got, base, failed, crossed>>

\* The time stamps of a track count from its first fragment.
Based(ok) == base' = [t \in Tracks |-> IF t \in DOMAIN ok /\ base[t] = 0 THEN ok[t] ELSE base[t]]

Fetched(t, ok) == IF t \in DOMAIN ok THEN <<Media(t, ok[t])>> ELSE <<>>

\* The i-th of one list with the i-th of the other; what cannot be had is left out.
PairSegments ==
    LET next == [t \in {t \in Tracks : todo[t] # {}} |-> Min(todo[t])] IN
    /\ pc = "walk" /\ mode = "paired"
    /\ \/ \E bad \in SUBSET DOMAIN next :
          LET ok == Restrict(next, DOMAIN next \ bad)
              chunk == Fetched("video", ok) \o Fetched("audio", ok)
          IN
          /\ IF \A t \in bad : Expired(next[t]) THEN Works ELSE Fails
          /\ failed' = failed \cup {<<t, next[t]>> : t \in bad}
          /\ Based(ok)
          /\ IF chunk = <<>> THEN UNCHANGED files ELSE WriteMedia(chunk)
          /\ todo' = [t \in Tracks |-> IF t \in DOMAIN next THEN todo[t] \ {next[t]} ELSE {}]
          /\ pc' = IF todo' = None THEN "poll" ELSE "walk"
       \/ Refused /\ Ends /\ UNCHANGED <<todo, base, failed>>
    /\ UNCHANGED <<room, outside, counters, listed, got, last, uri, map, seen, crossed>>

\* All the video, then all the sound, ...
FetchTimed ==
    LET t == IF todo["video"] # {} THEN "video" ELSE "audio"
        n == Min(todo[t])
    IN
    /\ pc = "walk" /\ mode = "timed" /\ todo # None
    /\ \/ Works /\ got' = got \cup {<<t, n>>} /\ Based([u \in {t} |-> n]) /\ UNCHANGED failed
       \/ /\ (Expired(n) /\ Works) \/ Fails
          /\ failed' = failed \cup {<<t, n>>} /\ UNCHANGED <<got, base>>
    /\ todo' = [todo EXCEPT ![t] = @ \ {n}]
    /\ UNCHANGED <<room, outside, pc, counters, listed, last, uri, map, files, seen, crossed>>

\* ... and then in the order of the time stamps, sound first, of one track as
\* fetched.  One from before the first is not shifted.
Time(s) == IF s[2] < base[s[1]] THEN s[2] ELSE s[2] - base[s[1]]
Earlier(s, u) ==
    \/ Time(s) < Time(u)
    \/ /\ Time(s) = Time(u)
       /\ (s[1] = "audio" /\ u[1] = "video") \/ (s[1] = u[1] /\ s[2] < u[2])

WriteTimed ==
    /\ pc = "walk" /\ mode = "timed" /\ todo = None
    /\ IF got = {} THEN Works /\ pc' = "poll" /\ UNCHANGED <<got, files>>
       ELSE LET s == CHOOSE s \in got : \A u \in got \ {s} : Earlier(s, u) IN
            \/ /\ Works /\ WriteMedia(<<Media(s[1], s[2])>>) /\ got' = got \ {s} /\ UNCHANGED pc
            \/ Refused /\ Ends /\ UNCHANGED got
    /\ UNCHANGED <<room, outside, counters, listed, todo, last, uri, map, base, history>>
-----------------------------------------------------------------------------
Watching ==
    \/ PollVideo \/ PollFails \/ RefreshURL
    \/ VideoInit \/ VideoSegment
    \/ \E t \in Tracks : PollPair(t)
    \/ CombinedInit \/ PairSegments \/ FetchTimed \/ WriteTimed

Next == MakeSegment \/ GoesOffline \/ Cancel \/ Watching

Spec == Init /\ [][Next]_vars
\* The loop runs on: its sleeps end and its requests have time limits.
FairSpec == Spec /\ WF_vars(Watching)
-----------------------------------------------------------------------------
Written == {<<out[i].what, out[i].n>> : i \in DOMAIN out}

\* A segment that has a number is written once and after all that come before
\* it, over all files of a watch, whatever fails and whatever URLs are refreshed
\* (the lastSeq of the loops, the sort of the timed one).
InOrder ==
    \A i, j \in DOMAIN out :
        i < j /\ out[i].what = out[j].what /\ out[i].what # "init" /\ Number(out[j].n) # 0
        => out[i].n < out[j].n

\* With one playlist the rest of a list waits after an error for the next poll,
\* and by then it may have left the playlist: all from the failed segment on.
LeftBehind(t, n) ==
    /\ mode = "video" /\ Expired(n)
    /\ \E m \in 1..n-1 : <<t, m>> \in failed /\ \A k \in m+1..n : <<t, k>> \notin Written

\* A segment that some playlist listed is written, still to come, or one whose
\* own download failed; the failure of another loses it only in that one way.
NothingSkipped ==
    pc # "ended" =>
        \A t \in Of(mode) : \A n \in seen[t] :
            \/ <<t, n>> \in Written \cup failed \cup got
            \/ n \in todo[t]
            \/ mode = "video" /\ Number(n) > last[t]
            \/ LeftBehind(t, n)

\* Two init segments of one playlist are of the same stretch of the stream, if not
\* of the same variant.
SameStretch(m, o) == m["video"] % 2 = o["video"] % 2

\* Every file can be played: its media comes after an init segment.  With one
\* playlist that is the init of its own encoding (mp4InitSegment, lastMapURI), of
\* its own stretch of the stream in any case; it is of another variant only once
\* a refresh has changed the variant and the new list began with what was known.
Playable ==
    \A i \in DOMAIN out : out[i].what # "init" =>
        \E j \in 1..i-1 :
            /\ out[j].what = "init" /\ out[j].file = out[i].file
            /\ mode = "video" /\ numbered =>
                /\ SameStretch(out[j].map, out[i].map)
                /\ crossed \/ out[j].map = out[i].map
            /\ \A k \in j+1..i-1 : out[k].what # "init"

\* A watch is wanted until its context is cancelled or the room goes offline; but
\* where two playlists without numbers are still served it does not notice.
Wanted == ctx /\ (live \/ (mode # "video" /\ ~numbered))

\* A watch that is no longer wanted ends (consecutiveErrors, streamStallPolls).
\* It never is again, so this says that the one leads to the other.
WatchReturns == []<>(Wanted \/ pc = "ended")
-----------------------------------------------------------------------------
(* What the code's comments suggest and the code does not do.                  *)

\* Without numbers the names keep segments from being written twice ("fall back
\* to URI-string dedup when seq is unavailable", chaturbate.go:1136).
NothingTwice ==
    \A i, j \in DOMAIN out :
        i < j /\ out[i].what = out[j].what /\ out[i].what # "init" => out[i].n # out[j].n

\* A refresh keeps one recording going in the same file ("keep recording into
\* the SAME open file", chaturbate.go:847): its media comes
\* after the init of its own encoding.
PlayableThroughout ==
    \A i \in DOMAIN out : out[i].what # "init" /\ mode = "video" /\ numbered =>
        \E j \in 1..i-1 :
            out[j].what = "init" /\ out[j].map = out[i].map /\ \A k \in j+1..i-1 : out[k].what # "init"

\* Playlists that no longer grow end the watch (streamStallPolls).
StalledReturns == ~live ~> pc = "ended"
===============================================================================
