----------------------------- MODULE AddressMap -----------------------------
(***************************************************************************)
(* What the functions of vm.c promise to their callers: an address space   *)
(* is a partial map from virtual pages to physical pages with permissions. *)
(* A request asks for consecutive pages and is served page by page in      *)
(* their order: a page that is not mapped yet becomes mapped as asked, or  *)
(* it is passed over.  What is mapped stays as it is.                      *)
(***************************************************************************)
EXTENDS Integers

CONSTANTS
  Spaces,     \* address spaces
  NoRequest   \* between two requests

VARIABLES
  map,        \* for each space, the pages that are mapped and where to
  request     \* the request that is served: pages first .. last of a space to
              \* frames from frame on, where next is the page that is next

Extend(m, v, e) == [x \in DOMAIN m \cup {v} |-> IF x = v THEN e ELSE m[x]]

Init ==
  /\ map = [s \in Spaces |-> <<>>]
  /\ request = NoRequest

Ask ==
  /\ request = NoRequest /\ request' # NoRequest
  /\ request'.next = request'.first
  /\ UNCHANGED map

Turn == request' = [request EXCEPT !.next = @ + 1]

MapPage ==
  /\ Turn
  /\ request.next <= request.last
  /\ request.next \notin DOMAIN map[request.space]
  /\ map' = [map EXCEPT ![request.space] =
               Extend(@, request.next, [frame |-> request.frame + (request.next - request.first),
                                        perm |-> request.perm])]

PassOver ==
  /\ Turn
  /\ request.next <= request.last
  /\ UNCHANGED map

Finish ==
  /\ request' = NoRequest
  /\ request.next > request.last
  /\ UNCHANGED map

Next == Ask \/ (request # NoRequest /\ (PassOver \/ MapPage \/ Finish))

Spec == Init /\ [][Next]_<<map, request>>
=============================================================================
