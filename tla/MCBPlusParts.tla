---------------------------- MODULE MCBPlusParts ----------------------------
(***************************************************************************)
(* The parts below the B+ tree for TLC.  They share no state, and the tree *)
(* sees of each only what it computes, so a behaviour takes one of them    *)
(* through its steps and leaves the others as they start.                  *)
(***************************************************************************)
EXTENDS KeySearch, FreeList, ValueAlloc, PageLayout, NodePage

VARIABLE part

\* The sizes of .configBPlus, sizes that fit exactly or not at all, one, two and three
\* values a page, pages above the buffer of 4096, small pages with every key size, and
\* values that leave a rest of the page, with an index left for one more or not.  A page
\* stays a node's growth below 65536.
Conf(p, k, v) == [pageSize |-> p, keySize |-> k, valueSize |-> v]
Sizes == {Conf(4096, 35, 1024), Conf(4096, 35, 512), Conf(4096, 35, 4096), Conf(4096, 35, 8192),
          Conf(4096, 1400, 2048), Conf(3072, 20, 1024), Conf(8192, 61, 2048), Conf(32768, 255, 16384)}
         \cup {Conf(p, k, p \div n) : p \in {128, 256}, k \in 1 .. 50, n \in {1, 2, 4}}
         \cup {Conf(4096, 35, v) : v \in {600, 1000, 1365, 2000, 3000}}
         \cup {Conf(128, 10, v) : v \in 17 .. 63}

\* Pages that a node fills to the byte, and pages with some room left, as LayoutAssumption
\* has them.
Fitting(d, k, room) == LET l == [maxDegree |-> d, keySize |-> k, pageSize |-> 0]
                       IN  [l EXCEPT !.pageSize = NodeSize(l) + room]
Layouts == {l \in {Fitting(d, k, room) : d \in 2 .. 4, k \in 1 .. 9, room \in {0, 1, 5, 20}} :
              (NodeSize(l) - 1) % IO_BUFFER_SIZE # 0}

\* A part that is not the one taken is in its first state, its inputs fixed.
Start(p, Inputs) == part = p \/ Inputs
MCInit ==
    /\ part \in {"search", "list", "alloc", "layout", "page"}
    /\ SearchInit /\ Start("search", size = 0 /\ key = 0 /\ ~larger)
    /\ ListInit
    /\ Init
    /\ LayoutInit /\ Start("layout", meta = Conf(4096, 35, 1024))
    /\ PageInit /\ Start("page", metaData = CHOOSE l \in Layouts : TRUE)

Search == part = "search" /\ SearchNext /\ UNCHANGED <<part, listVars, vars, layoutVars, pageVars>>
List == part = "list" /\ ListNext /\ UNCHANGED <<part, searchVars, vars, layoutVars, pageVars>>
Alloc == part = "alloc" /\ Next /\ UNCHANGED <<part, searchVars, listVars, layoutVars, pageVars>>
OpenStore == part = "layout" /\ LayoutNext /\ UNCHANGED <<part, searchVars, listVars, vars, pageVars>>
Page == part = "page" /\ PageNext /\ UNCHANGED <<part, searchVars, listVars, vars, layoutVars>>

allVars == <<part, searchVars, listVars, vars, layoutVars, pageVars>>

\* Calls and constructors run on by themselves.
MCSpec == /\ MCInit
          /\ [][Search \/ List \/ Alloc \/ OpenStore \/ Page]_allVars
          /\ WF_allVars(Search) /\ WF_allVars(OpenStore /\ opening # "ready")

----------------------------------------------------------------------------
(* Properties of the part taken *)

\* The searches return.
SearchReturns == part = "search" => Terminates

\* Opening ends, in the configured sizes or in the default ones, with a usable tree.
LayoutOpens == part = "layout" => Opens
=============================================================================
