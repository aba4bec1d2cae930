----------------------------- MODULE LispMemory -----------------------------
(***************************************************************************)
(* kernel/minilisp.c, the memory of the interpreter: two halves, of which  *)
(* one is in use, and Cheney's collector that copies the live objects into *)
(* the other.  Addresses and sizes are in words of 8 bytes.                *)
(*                                                                         *)
(* A state of the interpreter is one record, which every operator takes    *)
(* and returns: a call that returns an object returns the record           *)
(* [s |-> state, v |-> address], and v is a plain C pointer that the       *)
(* collector does not know of.  What it does know are the frames of the    *)
(* C stack that ADD_ROOT makes, s.roots; an "Obj **" is a place in them.   *)
(***************************************************************************)
EXTENDS Integers, Sequences, FiniteSets, TLC

(* The objects that are not in memory, and the null pointer.               *)
Nil == -1
True == -2
Dot == -3
Cparen == -4
NULLOBJ == -5

At(s, p) ==
  CASE p = Nil -> [type |-> "nil"] [] p = True -> [type |-> "true"]
    [] p \in DOMAIN s.mem -> s.mem[p] [] OTHER -> [type |-> "none"]

(* A field of an object, whatever the object is.                           *)
Field(s, p, field) == IF field \in DOMAIN At(s, p) THEN At(s, p)[field] ELSE NULLOBJ

Type(s, p) == At(s, p).type
car(s, p) == Field(s, p, "car")
cdr(s, p) == Field(s, p, "cdr")

(* After error() nothing happens any more.                                 *)
Failed(s) == s.error # ""
error(s, what) == IF Failed(s) THEN s ELSE [s EXCEPT !.error = what]

R(s, v) == [s |-> s, v |-> v]

(* x = ...; and the rest of the function, which uses the value of x.       *)
With(x, Rest(_)) == CHOOSE r \in {Rest(y) : y \in {x}} : TRUE

Store(s, p, field, v) ==
  IF Failed(s) \/ p \notin DOMAIN s.mem \/ field \notin DOMAIN s.mem[p] THEN s
  ELSE [s EXCEPT !.mem[p] = [@ EXCEPT ![field] = v]]

-----------------------------------------------------------------------------
(* The roots.  The first frame stands for the static variables.            *)

SYMBOLS == <<1, 1>>
NIL == <<1, 2>>
TRUEOBJ == <<1, 3>>

(* DEFINE1 to DEFINE4, and the return that drops the frame.                *)
ADD_ROOT(s, size) ==
  IF Failed(s) THEN s ELSE [s EXCEPT !.roots = Append(@, [i \in 1 .. size |-> NULLOBJ])]

Slot(s, i) == <<Len(s.roots), i>>

Drop(s) == IF Failed(s) THEN s ELSE [s EXCEPT !.roots = SubSeq(@, 1, Len(@) - 1)]

Returning(r) == With(r, LAMBDA t : R(Drop(t.s), t.v))

Load(s, h) == IF Failed(s) THEN Nil ELSE s.roots[h[1]][h[2]]

Set(s, h, v) == IF Failed(s) THEN s ELSE [s EXCEPT !.roots[h[1]][h[2]] = v]

(* *h = r.                                                                 *)
Keep(r, h) == With(r, LAMBDA t : Set(t.s, h, t.v))

-----------------------------------------------------------------------------
(* The collector.  scan1 and scan2 are in the state while it runs.         *)

Tombstone(s, p, newloc) ==
  [s EXCEPT !.mem[p] = [type |-> "moved", size |-> @.size, moved |-> newloc]]

forward(s, p) ==
  IF p \notin s.from_space .. s.from_space + s.memory_size - 1 THEN R(s, p)
  ELSE IF Type(s, p) = "none" THEN R(error(s, "unknown type"), p)
  ELSE IF s.mem[p].type = "moved" THEN R(s, s.mem[p].moved)
  ELSE LET copied == [s EXCEPT !.mem = (s.scan2 :> s.mem[p]) @@ @, !.scan2 = @ + s.mem[p].size]
       IN R(Tombstone(copied, p, s.scan2), s.scan2)

(* The frames from the innermost outwards; handles i to j of them.         *)
RECURSIVE ForwardSlots(_, _, _, _)
ForwardSlots(s, slots, i, j) ==
  LET mid == (i + j) \div 2
      r == forward(s, Load(s, slots[i]))
  IN IF i > j \/ Failed(s) THEN s
     ELSE IF i = j THEN [r.s EXCEPT !.roots[slots[i][1]][slots[i][2]] = r.v]
     ELSE ForwardSlots(ForwardSlots(s, slots, i, mid), slots, mid + 1, j)

RECURSIVE SlotsOf(_, _)
SlotsOf(s, frame) ==
  IF frame = 1 THEN <<>>
  ELSE [i \in 1 .. Len(s.roots[frame]) |-> <<frame, i>>] \o SlotsOf(s, frame - 1)

(* Bug: the symbols are not forwarded.                                     *)
BugForwardRootObjects(s) == LET slots == SlotsOf(s, Len(s.roots)) IN ForwardSlots(s, slots, 1, Len(slots))

forward_root_objects(s) ==
  LET slots == <<SYMBOLS>> \o SlotsOf(s, Len(s.roots)) IN ForwardSlots(s, slots, 1, Len(slots))

(* The pointers in an object of each type.                                 *)
Pointers ==
  [int |-> <<>>, symbol |-> <<>>, primitive |-> <<>>, cell |-> <<"car", "cdr">>,
   function |-> <<"params", "body", "env">>, macro |-> <<"params", "body", "env">>,
   env |-> <<"vars", "up">>]

ForwardField(s, p, field) ==
  LET r == forward(s, s.mem[p][field]) IN [r.s EXCEPT !.mem[p] = [@ EXCEPT ![field] = r.v]]

RECURSIVE ForwardFields(_, _, _)
ForwardFields(s, p, fields) ==
  IF Failed(s) \/ fields = <<>> THEN s
  ELSE ForwardFields(ForwardField(s, p, Head(fields)), p, Tail(fields))

(* One turn of the loop.                                                   *)
Scan(s) ==
  LET o == s.mem[s.scan1]
  IN IF o.type \notin DOMAIN Pointers THEN error(s, "unknown type")
     ELSE [ForwardFields(s, s.scan1, Pointers[o.type]) EXCEPT !.scan1 = @ + o.size]

(* Up to 2^n turns.                                                        *)
RECURSIVE ScanLoop(_, _)
ScanLoop(s, n) ==
  CASE s.scan1 >= s.scan2 -> s
    [] n = 0 -> Scan(s)
    [] OTHER -> ScanLoop(ScanLoop(s, n - 1), n - 1)

gc(s) ==
  LET swapped == [s EXCEPT !.from_space = s.memory, !.memory = s.next_heap,
                           !.next_heap = s.cur_heap, !.cur_heap = s.next_heap,
                           !.scan1 = s.next_heap, !.scan2 = s.next_heap]
  IN IF s.gc_running THEN error(s, "gc_running")
     ELSE With(ScanLoop(forward_root_objects(swapped), 7), LAMBDA t :
            IF Failed(t) THEN t
            ELSE [t EXCEPT !.mem_nused = t.scan1 - t.memory,
                           !.scan1 = 0, !.scan2 = 0, !.collections = @ + 1])

Full(s, size) == s.memory_size < s.mem_nused + size

alloc(s, size) ==
  LET collect == ~ Failed(s) /\ IF s.always_gc THEN ~ s.gc_running ELSE Full(s, size)
  IN With(IF collect THEN gc(s) ELSE s, LAMBDA t :
       IF Full(t, size) \/ Failed(t) THEN R(error(t, "Memory exhausted"), Nil)
       ELSE R([t EXCEPT !.mem_nused = @ + size], t.memory + t.mem_nused))

(* A new object, which the constructor fills in after the allocation.      *)
New(s, size, Object(_)) ==
  With(alloc(s, size), LAMBDA a :
    IF Failed(a.s) THEN a ELSE R([a.s EXCEPT !.mem = (a.v :> Object(a.s)) @@ @], a.v))

make_int(s, value) == New(s, 2, LAMBDA t : [type |-> "int", size |-> 2, value |-> value])

cons(s, x, y) ==
  New(s, 3, LAMBDA t : [type |-> "cell", size |-> 3, car |-> Load(t, x), cdr |-> Load(t, y)])

(* A name of seven characters or less fits in a word.                      *)
make_symbol(s, name) ==
  LET size == IF name \in {"defmacro", "macroexpand"} THEN 3 ELSE 2
  IN New(s, size, LAMBDA t : [type |-> "symbol", size |-> size, name |-> name])

make_primitive(s, fn) == New(s, 2, LAMBDA t : [type |-> "primitive", size |-> 2, fn |-> fn])

(* Bug: the pointers are read before the allocation.                       *)
BugMakeFunction(s, env, type, params, body) ==
  New(s, 4, LAMBDA t : [type |-> type, size |-> 4, params |-> Load(s, params),
                        body |-> Load(s, body), env |-> Load(s, env)])

make_function(s, env, type, params, body) ==
  New(s, 4, LAMBDA t : [type |-> type, size |-> 4, params |-> Load(t, params),
                        body |-> Load(t, body), env |-> Load(t, env)])

make_env(s, vars, up) ==
  New(s, 3, LAMBDA t : [type |-> "env", size |-> 3, vars |-> Load(t, vars), up |-> Load(t, up)])

acons(s, x, y, a) ==
  LET f == ADD_ROOT(s, 1)
      cell == Slot(f, 1)
  IN With(Keep(cons(f, x, y), cell), LAMBDA t : Returning(cons(t, cell, a)))

lisp_init(size, always_gc, gc_running, input, todo) ==
  [mem |-> <<>>,
   cur_heap |-> 0, next_heap |-> size, memory |-> 0, from_space |-> 0,
   memory_size |-> size, mem_nused |-> 0, always_gc |-> always_gc, gc_running |-> gc_running,
   scan1 |-> 0, scan2 |-> 0, roots |-> << <<Nil, Nil, True>> >>, error |-> "",
   count |-> 0, collections |-> 0, input |-> input, out |-> <<>>, todo |-> todo,
   k |-> <<>>, v |-> Nil]

-----------------------------------------------------------------------------

(* The addresses that can be reached from the roots.                       *)
PointsTo(s, p) ==
  IF Type(s, p) \in DOMAIN Pointers
  THEN {s.mem[p][Pointers[Type(s, p)][i]] : i \in DOMAIN Pointers[Type(s, p)]} ELSE {}

RECURSIVE Closure(_, _)
Closure(s, seen) ==
  LET more == (UNION {PointsTo(s, p) : p \in seen} \cap Nat) \ seen
  IN IF more = {} THEN seen ELSE Closure(s, seen \cup more)

Live(s) ==
  Closure(s, Nat \cap UNION {{s.roots[f][i] : i \in DOMAIN s.roots[f]} : f \in DOMAIN s.roots})
=============================================================================
