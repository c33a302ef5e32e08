------------------------------- MODULE MC_RTLib -------------------------------
(***************************************************************************)
(* The sequential helpers of the Linux runtime library checked together:   *)
(* the library loader as a state machine, and beside it the input of one   *)
(* call of a pure helper, fixed at the start: a library bitmask the        *)
(* registry can hold, a build with the pthread_t buffer a new thread's     *)
(* event points at, or the page size and heaps of mark_heaps_exec.  Every  *)
(* input is explored, each with every run of the loader.  The heaps are    *)
(* placed on and off page boundaries, short and long, on machines of 4K,   *)
(* 16K and 64K pages, with sysconf answering or failing.                   *)
(*                                                                         *)
(* The trap-mapping registry (TrapMap, as MC_TrapMap configures it) is     *)
(* checked in the same run as a disjoint union: which picks the loader or  *)
(* the registry in the initial state, and the other stays at one initial   *)
(* state.  The two share no state in the code: dyninstTrapHandler reads    *)
(* the link map, which the model's Dlopen and Dlclose change, whoever      *)
(* calls dlopen.                                                           *)
(***************************************************************************)
EXTENDS LoadLibrary, Bitmask, ThreadInfo, MarkHeaps

CONSTANTS   \* the trap-mapping registry's, as MC_TrapMap sets them
  TMNumLibraries, TMWordSize, TMBuilds, NoLib, MaxLoads, MaxTraps

VARIABLES
  input,
  \* the trap-mapping registry's
  linkMap, hdr, all_headers, all_headers_current, all_headers_last, hpc, cursor,
  trapAddr, trapLib, iPos, found, loads, trapsTaken, asserts,
  which     \* "lib" (the loader and a helper's input) or "trapmap"

PageSizes == {4, 16, 64}
Heaps == [addr : {5, 64, 100}, size : {3, 40}]

Inputs ==
  [kind : {"mask"}, m : Masks]
    \cup UNION { [kind : {"thread"}, b : {b}, buf : Buffers(b)] : b \in Builds }
    \cup UNION { [kind : {"heaps"}, real : {r}, sc : {r, 0, -1},
                  any : Heaps, low : Heaps] : r \in PageSizes }

(* As MC_TrapMap: the main program and rewritten libraries A and B at 10   *)
(* and 20, A with trap sites at offsets 0 and 2, B at offset 1.            *)
TM_Libs == {"Main", "A", "B"}
TM_Rewritten == {"A", "B"}
TM_Base == [ l \in TM_Libs |-> CASE l = "Main" -> 1 [] l = "A" -> 10 [] l = "B" -> 20 ]
TM_Traps == [ l \in TM_Libs |-> CASE l = "A" -> {0, 2} [] l = "B" -> {1} [] OTHER -> {} ]

TM == INSTANCE TrapMap WITH
        Libs <- TM_Libs, Main <- "Main", Rewritten <- TM_Rewritten, Base <- TM_Base,
        Traps <- TM_Traps, NumLibraries <- TMNumLibraries, WordSize <- TMWordSize,
        Builds <- TMBuilds

libVars == << vars, input >>
tmVars == << linkMap, hdr, all_headers, all_headers_current, all_headers_last, hpc,
             cursor, trapAddr, trapLib, iPos, found, loads, trapsTaken, asserts >>
allVars == << libVars, tmVars, which >>

(* One input, for the registry's part.                                     *)
SomeInput == CHOOSE i \in Inputs : TRUE

(* The loader with a helper's input, the registry at one initial state.    *)
LibPart ==
  /\ which = "lib" /\ Init /\ input \in Inputs
  /\ asserts = TRUE /\ TM!Init

(* The registry, the loader and input at one initial state.                *)
TrapMapPart ==
  /\ which = "trapmap" /\ TM!Init
  /\ arch_x86 = FALSE /\ do_dlopen_set = FALSE /\ Init /\ input = SomeInput

RTInit == LibPart \/ TrapMapPart

(* A step of one part, the other left alone.                               *)
LibStep(A) == which = "lib" /\ A /\ UNCHANGED << input, tmVars, which >>
TrapMapStep(A) == which = "trapmap" /\ A /\ UNCHANGED << libVars, which >>

RTNext == LibStep(Next) \/ TrapMapStep(TM!Next)

(* TrapMap's fairness, confined to its part: the handler runs to its end   *)
(* once trapped.  The loader's calls, new traps and the dynamic loader get *)
(* none.                                                                   *)
RTSpec ==
  /\ RTInit /\ [][RTNext]_allVars
  /\ WF_allVars(TrapMapStep(TM!Handler /\ hpc # "idle"))

-----------------------------------------------------------------------------
(* get_next_set_bitmask and get_next_free_bitmask (RTlinux.c 759-801),    *)
(* on the mask: the next set slot after every start the registry uses and *)
(* the first free slot, none skipped by the whole-word fast path.          *)
ScansFindNext ==
  input.kind = "mask" => ScansFindNextFor(input.m)

(* DYNINSTthreadInfo (RTlinux.c 411-486), on the build and buffer: the     *)
(* event is that of the first row whose ids match and whose stack passes   *)
(* the check of line 466, and no thread only when there is none.           *)
ThreadInfoFirstUsableRow ==
  input.kind = "thread" => FirstUsableRow(input.b, input.buf)

(* mark_heaps_exec (RTlinux.c 157-193), on the page size and heaps: with   *)
(* a page size that is a multiple of the machine's, every byte of both     *)
(* heaps ends up on an executable page.                                    *)
HeapsExecutable ==
  input.kind = "heaps" => HeapsExecutableFor(input.sc, input.real, input.any, input.low)

(* The comment at line 365 of RTlinux.c: positions holds a row for each    *)
(* libc layout seen, so for the build of the input every row is one the    *)
(* lookup of DYNINSTthreadInfo can reach and read the start function of.   *)
ThreadInfoRowsReadable ==
  input.kind = "thread" => RowsReadable(input.b)

(* TrapMap's SlotsConsistent: the assert of line 693 for every loaded      *)
(* library, so no two loaded libraries share a slot.                       *)
SlotsConsistent == TM!SlotsConsistent

(* TrapMap's AssertBuildFindsOwnLibrary: in a build with assert(), a       *)
(* header getStaticTrapMap returns is that of the trap's own library.      *)
AssertBuildFindsOwnLibrary == TM!AssertBuildFindsOwnLibrary

(* TrapMap's CallReturns: every trap handled returns to the program or     *)
(* ends it, even as libraries come and go.                                 *)
CallReturns == TM!CallReturns
=============================================================================
