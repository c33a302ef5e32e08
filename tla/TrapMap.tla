------------------------------- MODULE TrapMap -------------------------------
(***************************************************************************)
(* The static trap-mapping registry of the runtime library                 *)
(* (src/dyninstAPI_RT/src/RTlinux.c, lines 556-586 and 620-727).           *)
(*                                                                         *)
(* In static mode a trap instruction lands in dyninstTrapHandler, which    *)
(* asks getStaticTrapMap for the trap table of the library containing the *)
(* trapping address.  Under trap_mapping_lock, getStaticTrapMap re-walks   *)
(* the dynamic loader's link map (parse_libs): each rewritten library      *)
(* carries a trap_mapping_header in its own memory; the first time it is   *)
(* seen its entries are relocated by the load address and it is given a    *)
(* slot in all_headers.  Slots of libraries gone since the previous walk   *)
(* are freed by copying the "current" mask to the "last" one.              *)
(*                                                                         *)
(* Trapping threads serialise on trap_mapping_lock for the whole call, so  *)
(* one handler suffices.  The dynamic loader (dlopen/dlclose in another    *)
(* thread, which does not take that lock) changes the link map between     *)
(* any two steps of the walk; it is the environment, bounded by MaxLoads.  *)
(* A library loaded again gets fresh memory: its header's pos is -1 and   *)
(* its entries are unrelocated.                                            *)
(***************************************************************************)
EXTENDS Integers, FiniteSets, Sequences, SequencesExt

CONSTANTS
  Libs,          \* the libraries, the main program included
  Main,          \* the main program, always in the link map
  Rewritten,     \* the libraries whose dynamic section has DT_DYNINST
  Base,          \* load address (l_addr) of each library
  Traps,         \* each rewritten library's trap sources, as offsets
  NumLibraries,  \* NUM_LIBRARIES
  WordSize,      \* WORD_SIZE
  Builds,        \* the builds checked: TRUE keeps assert(), FALSE is NDEBUG
  NoLib,         \* a NULL header or list pointer
  MaxLoads,      \* bound on the loader's dlopen and dlclose calls
  MaxTraps       \* bound on the traps handled

ASSUME Builds \subseteq BOOLEAN
ASSUME Main \in Libs /\ Rewritten \subseteq Libs /\ NoLib \notin Libs
ASSUME \A l \in Libs : Base[l] > 0

VARIABLES
  linkMap,               \* _r_debug.r_map, in list order
  hdr,                   \* each library's trap_mapping_header as its memory holds it
  all_headers,           \* slot -> header
  all_headers_current,   \* bitmask of the slots seen by the current walk
  all_headers_last,      \* bitmask of the slots seen by the previous walk
  hpc,                   \* the handler: idle, parse, walk, clear, search, translate,
                         \* abortParse (an assert of the walk), abortTrap (no header)
  cursor,                \* l_current in parse_libs
  trapAddr, trapLib,     \* orig_ip and the library it lies in
  iPos,                  \* i in getStaticTrapMap's search
  found,                 \* the header getStaticTrapMap returns
  loads,                 \* the loader's calls so far
  trapsTaken,            \* the traps handled so far
  asserts                \* the build: TRUE when assert() is compiled in

\* The bitmask helpers, with the registry's NUM_LIBRARIES and WORD_SIZE.
BM == INSTANCE Bitmask
Slots == BM!Slots

vars == << linkMap, hdr, all_headers, all_headers_current, all_headers_last,
           hpc, cursor, trapAddr, trapLib, iPos, found, loads, trapsTaken, asserts >>

Loaded == ToSet(linkMap)
Fresh(l) == [pos |-> -1, traps |-> Traps[l], low |-> 0, high |-> 0, relocs |-> 0]

Init ==
  /\ linkMap = << Main >>
  /\ hdr = [ l \in Libs |-> Fresh(l) ]
  /\ all_headers = [ s \in Slots |-> NoLib ]
  /\ all_headers_current = BM!clear_bitmask
  /\ all_headers_last = BM!clear_bitmask
  /\ hpc = "idle" /\ cursor = NoLib
  /\ trapAddr = 0 /\ trapLib = NoLib /\ iPos = -1 /\ found = NoLib
  /\ loads = 0 /\ trapsTaken = 0
  /\ asserts \in Builds

-----------------------------------------------------------------------------
(* The handler thread.                                                     *)

(* Lines 556-568 and 627: a trap at an instrumented site of a loaded       *)
(* rewritten library; take trap_mapping_lock.                              *)
Trap ==
  /\ hpc = "idle" /\ trapsTaken < MaxTraps
  /\ trapsTaken' = trapsTaken + 1
  /\ \E l \in Loaded \cap Rewritten : \E o \in Traps[l] :
       trapAddr' = o + Base[l] /\ trapLib' = l
  /\ hpc' = "parse"
  /\ UNCHANGED << linkMap, hdr, all_headers, all_headers_current, all_headers_last,
                  cursor, iPos, found, loads, asserts >>

(* Lines 648-657: clear the current mask and start at the list's head.     *)
(* The main program is always there, so r_map is never NULL.               *)
ParseLibs ==
  /\ hpc = "parse"
  /\ all_headers_current' = BM!clear_bitmask
  /\ cursor' = Head(linkMap)
  /\ hpc' = "walk"
  /\ UNCHANGED << linkMap, hdr, all_headers, all_headers_last,
                  trapAddr, trapLib, iPos, found, loads, trapsTaken, asserts >>

(* Line 659: l_current = l_current->l_next, read from the list as it is.   *)
Advance ==
  LET k == CHOOSE k \in DOMAIN linkMap : linkMap[k] = cursor
      nxt == IF k < Len(linkMap) THEN linkMap[k + 1] ELSE NoLib
  IN  /\ cursor' = nxt
      /\ hpc' = IF nxt = NoLib THEN "clear" ELSE "walk"

(* Lines 681-684: no DT_DYNINST entry: NOT_REWRITTEN.                      *)
NotRewritten ==
  /\ hpc = "walk" /\ cursor \notin Rewritten
  /\ Advance
  /\ UNCHANGED << linkMap, hdr, all_headers, all_headers_current, all_headers_last,
                  trapAddr, trapLib, iPos, found, loads, trapsTaken, asserts >>

(* Lines 691-695: a header with a slot: mark the slot and check it.        *)
AlreadyParsed ==
  LET p == hdr[cursor].pos IN
  /\ hpc = "walk" /\ cursor \in Rewritten /\ p # -1
  /\ all_headers_current' = BM!set_bit(all_headers_current, p)
  /\ IF asserts /\ all_headers[p] # cursor
       THEN hpc' = "abortParse" /\ UNCHANGED cursor
       ELSE Advance
  /\ UNCHANGED << linkMap, hdr, all_headers, all_headers_last,
                  trapAddr, trapLib, iPos, found, loads, trapsTaken, asserts >>

(* Lines 697-704: relocate every entry in place and widen [low, high];     *)
(* low and high are 0 until set.                                           *)
Relocated(h, l) ==
  LET srcs == { t + Base[l] : t \in h.traps } IN
  [ h EXCEPT !.traps = srcs,
             !.low = IF h.low = 0 THEN Min(srcs) ELSE Min(srcs \cup {h.low}),
             !.high = Max(srcs \cup {h.high}),
             !.relocs = @ + 1 ]

\* Mutant: the new slot not marked in the last mask (line 717 left out).
ParseNewLastUnmarked ==
  LET np == BM!get_next_free_bitmask(all_headers_last, -1) IN
  /\ hpc = "walk" /\ cursor \in Rewritten /\ hdr[cursor].pos = -1
  /\ np < NumLibraries
  /\ hdr' = [ hdr EXCEPT ![cursor] = [ Relocated(@, cursor) EXCEPT !.pos = np ] ]
  /\ all_headers' = [ all_headers EXCEPT ![np] = cursor ]
  /\ all_headers_current' = BM!set_bit(all_headers_current, np)
  /\ Advance
  /\ UNCHANGED << linkMap, all_headers_last, trapAddr, trapLib, iPos, found, loads, trapsTaken, asserts >>

(* Lines 697-718: a new header: relocate, take the first slot free in the  *)
(* last mask, record it in both masks: PARSED.                             *)
ParseNew ==
  LET np == BM!get_next_free_bitmask(all_headers_last, -1) IN
  /\ hpc = "walk" /\ cursor \in Rewritten /\ hdr[cursor].pos = -1
  /\ np < NumLibraries
  /\ hdr' = [ hdr EXCEPT ![cursor] = [ Relocated(@, cursor) EXCEPT !.pos = np ] ]
  /\ all_headers' = [ all_headers EXCEPT ![np] = cursor ]
  /\ all_headers_current' = BM!set_bit(all_headers_current, np)
  /\ all_headers_last' = BM!set_bit(all_headers_last, np)
  /\ Advance
  /\ UNCHANGED << linkMap, trapAddr, trapLib, iPos, found, loads, trapsTaken, asserts >>

(***************************************************************************)
(* Lines 697-711, no slot free: the entries are already relocated; the     *)
(* assert of line 709 aborts, or, without asserts, ERROR_FULL is returned  *)
(* with pos still -1.                                                      *)
(***************************************************************************)
ParseFull ==
  /\ hpc = "walk" /\ cursor \in Rewritten /\ hdr[cursor].pos = -1
  /\ BM!get_next_free_bitmask(all_headers_last, -1) = NumLibraries
  /\ hdr' = [ hdr EXCEPT ![cursor] = Relocated(@, cursor) ]
  /\ IF asserts THEN hpc' = "abortParse" /\ UNCHANGED cursor ELSE Advance
  /\ UNCHANGED << linkMap, all_headers, all_headers_current, all_headers_last,
                  trapAddr, trapLib, iPos, found, loads, trapsTaken, asserts >>

(* Lines 660 and 721-727: the walk is over; last := current.               *)
ClearUnloaded ==
  /\ hpc = "clear"
  /\ all_headers_last' = all_headers_current
  /\ hpc' = "search" /\ iPos' = -1
  /\ UNCHANGED << linkMap, hdr, all_headers, all_headers_current,
                  cursor, trapAddr, trapLib, found, loads, trapsTaken, asserts >>

(* Lines 631-635: no further slot: the result is NULL.                     *)
SearchMiss ==
  /\ hpc = "search"
  /\ BM!get_next_set_bitmask(all_headers_current, iPos) = NumLibraries
  /\ found' = NoLib /\ hpc' = "translate"
  /\ UNCHANGED << linkMap, hdr, all_headers, all_headers_current, all_headers_last,
                  cursor, trapAddr, trapLib, iPos, loads, trapsTaken, asserts >>

\* Mutant: the lower end of the range test left out.
Covers(h, a) == a <= hdr[h].high

(* Line 640: the address lies in the header's [low_entry, high_entry].     *)
InRange(h, a) == a >= hdr[h].low /\ a <= hdr[h].high

(* Lines 636-641: the next set slot's header covers the address.           *)
SearchHit ==
  LET i == BM!get_next_set_bitmask(all_headers_current, iPos) IN
  /\ hpc = "search" /\ i < NumLibraries
  /\ InRange(all_headers[i], trapAddr)
  /\ found' = all_headers[i] /\ hpc' = "translate"
  /\ UNCHANGED << linkMap, hdr, all_headers, all_headers_current, all_headers_last,
                  cursor, trapAddr, trapLib, iPos, loads, trapsTaken, asserts >>

\* Mutant: the result of get_next_set_bitmask not stored back in i.
SearchNextNoAssign ==
  LET i == BM!get_next_set_bitmask(all_headers_current, iPos) IN
  /\ hpc = "search" /\ i < NumLibraries
  /\ ~InRange(all_headers[i], trapAddr)
  /\ UNCHANGED vars

(* Lines 630-641: it does not; go on from that slot.                       *)
SearchNext ==
  LET i == BM!get_next_set_bitmask(all_headers_current, iPos) IN
  /\ hpc = "search" /\ i < NumLibraries
  /\ ~InRange(all_headers[i], trapAddr)
  /\ iPos' = i
  /\ UNCHANGED << linkMap, hdr, all_headers, all_headers_current, all_headers_last,
                  hpc, cursor, trapAddr, trapLib, found, loads, trapsTaken, asserts >>

(***************************************************************************)
(* Lines 643 and 569-585: unlock; assert(hdr) and use the header's table   *)
(* to translate the trap; without a header the process dies (the assert,  *)
(* or the NULL dereference of line 570 when asserts are off).              *)
(***************************************************************************)
Translate ==
  /\ hpc = "translate"
  /\ hpc' = IF found = NoLib THEN "abortTrap" ELSE "idle"
  /\ UNCHANGED << linkMap, hdr, all_headers, all_headers_current, all_headers_last,
                  cursor, trapAddr, trapLib, iPos, found, loads, trapsTaken, asserts >>

-----------------------------------------------------------------------------
(* The dynamic loader, in another thread, outside trap_mapping_lock.  It   *)
(* does not unload the library the walk stands on or the one the trap is   *)
(* executing in.                                                           *)

Dlopen(l) ==
  /\ loads < MaxLoads /\ l \notin Loaded
  /\ linkMap' = Append(linkMap, l)
  /\ hdr' = [ hdr EXCEPT ![l] = Fresh(l) ]
  /\ loads' = loads + 1
  /\ UNCHANGED << trapsTaken, all_headers, all_headers_current, all_headers_last,
                  hpc, cursor, trapAddr, trapLib, iPos, found, asserts >>

Dlclose(l) ==
  /\ loads < MaxLoads /\ l \in Loaded /\ l # Main
  /\ ~(hpc = "walk" /\ cursor = l)
  /\ ~(hpc \notin {"idle", "abortParse", "abortTrap"} /\ trapLib = l)
  /\ linkMap' = SelectSeq(linkMap, LAMBDA x : x # l)
  /\ loads' = loads + 1
  /\ UNCHANGED << trapsTaken, hdr, all_headers, all_headers_current, all_headers_last,
                  hpc, cursor, trapAddr, trapLib, iPos, found, asserts >>

Done == hpc \in {"idle", "abortParse", "abortTrap"} /\ UNCHANGED vars

Handler ==
  \/ Trap \/ ParseLibs \/ NotRewritten \/ AlreadyParsed \/ ParseNew \/ ParseFull
  \/ ClearUnloaded \/ SearchMiss \/ SearchHit \/ SearchNext \/ Translate

Next == Handler \/ (\E l \in Libs : Dlopen(l) \/ Dlclose(l)) \/ Done

(* The handler runs to completion once trapped: weak fairness of its       *)
(* steps other than a new trap; the loader and new traps get none.         *)
Spec == Init /\ [][Next]_vars /\ WF_vars(Handler /\ hpc # "idle")

-----------------------------------------------------------------------------
(***************************************************************************)
(* The assert of line 693, for every loaded library and not only the one  *)
(* being parsed: a loaded library that holds a slot owns it in             *)
(* all_headers, so no two loaded libraries share a slot.                   *)
(***************************************************************************)
SlotsConsistent ==
  \A l \in Loaded \cap Rewritten :
    hdr[l].pos # -1 => all_headers[hdr[l].pos] = l

(***************************************************************************)
(* A header that getStaticTrapMap returns for a trap is the header of the *)
(* library that contains the site: no other loaded library's [low_entry,  *)
(* high_entry] captures it.  (A miss is NoAbort's concern.)               *)
(***************************************************************************)
TrapFindsOwnLibrary == hpc = "translate" /\ found # NoLib => found = trapLib

(* In a build with assert(), where a full registry stops the walk before  *)
(* a header can be relocated twice, every trap resolves to its own library.*)
AssertBuildFindsOwnLibrary == asserts => TrapFindsOwnLibrary

(***************************************************************************)
(* NUM_LIBRARIES is the "max number of rewritten libraries" (line 593):    *)
(* while no more rewritten libraries are loaded than that, no trap takes   *)
(* the process down.                                                       *)
(***************************************************************************)
NoAbort == hpc \notin {"abortParse", "abortTrap"}

(***************************************************************************)
(***************************************************************************)
(* Line 639 reads header->low_entry through the pointer the slot holds:    *)
(* when the search is about to read a slot's header, that slot's library  *)
(* is loaded and the header it points to is that mapping's, the one whose  *)
(* pos names the slot (a library closed and opened again has a new header, *)
(* and the slot of the old one points into memory that was unmapped).      *)
(* trap_mapping_lock keeps other trap handlers out; the loader is not      *)
(* expected to unmap a header in use.                                      *)
(***************************************************************************)
HeaderReadMapped ==
  LET i == BM!get_next_set_bitmask(all_headers_current, iPos) IN
  hpc = "search" /\ i < NumLibraries =>
    /\ all_headers[i] \in Loaded
    /\ hdr[all_headers[i]].pos = i

(* Every trap handled returns to the program or ends it: the walk and the  *)
(* slot search terminate even as libraries come and go.                    *)
CallReturns == (hpc = "parse") ~> (hpc \in {"idle", "abortParse", "abortTrap"})
=============================================================================
