-------------------------------- MODULE Lisp --------------------------------
(***************************************************************************)
(* kernel/minilisp.c, the reader, the evaluator, the primitives and the    *)
(* loop of the interpreter, on the memory of LispMemory.  The input comes  *)
(* in tokens.                                                              *)
(*                                                                         *)
(* The C functions that call each other recursively are cut at their       *)
(* calls: s.k is the stack of what remains to be done, the last entry      *)
(* first, and s.v is what the call before it has returned, a plain         *)
(* pointer.  A function that does not call back is one operator.           *)
(***************************************************************************)
EXTENDS LispMemory, SequencesExt

Digits == {"0", "1", "2", "3"}
Number(token) == CASE token = "0" -> 0 [] token = "1" -> 1 [] token = "2" -> 2 [] token = "3" -> 3

(* What remains to be done, with the places it is done on.                 *)
Then(s, c) == [s EXCEPT !.k = Append(@, c)]

(* return v; with the frame of the function, and without one.              *)
Value(s, v) == [s EXCEPT !.v = v]
Done(s, v) == Value(Drop(s), v)
Result(r) == Value(r.s, r.v)

Malformed(s) == error(s, "malformed")

Boolean(b) == IF b THEN True ELSE Nil

Eval(s, env, obj) == Then(s, [op |-> "eval", env |-> env, obj |-> obj])

(* The cells of a list, up to 2^n of them: a "for" over cdr.               *)
RECURSIVE CellsUpTo(_, _, _)
CellsUpTo(s, p, n) ==
  IF Type(s, p) # "cell" THEN <<>>
  ELSE IF n = 0 THEN <<p>>
  ELSE LET half == CellsUpTo(s, p, n - 1)
       IN IF Len(half) < 2 ^ (n - 1) THEN half
          ELSE half \o CellsUpTo(s, cdr(s, half[Len(half)]), n - 1)

ListCells(s, p) == CellsUpTo(s, p, 6)

(* What follows the last cell.                                             *)
End(s, p) == LET cells == ListCells(s, p) IN IF cells = <<>> THEN p ELSE cdr(s, cells[Len(cells)])

(* The first element of a list that has the property, or the null pointer. *)
First(s, p, Test(_)) ==
  LET found == SelectSeq([i \in DOMAIN ListCells(s, p) |-> car(s, ListCells(s, p)[i])], Test)
  IN IF found = <<>> THEN NULLOBJ ELSE Head(found)

reverse(s, p) ==
  LET cells == ListCells(s, p)
      n == Len(cells)
      place(q) == CHOOSE i \in 1 .. n : cells[i] = q
      turned(q) == [s.mem[q] EXCEPT !.cdr = IF place(q) = 1 THEN Nil ELSE cells[place(q) - 1]]
  IN IF n = 0 THEN R(s, Nil)
     ELSE R([s EXCEPT !.mem = [q \in DOMAIN @ |-> IF \E i \in 1 .. n : cells[i] = q
                                                  THEN turned(q) ELSE @[q]]], cells[n])

intern(s, name) ==
  LET named(p) == Type(s, p) = "symbol" /\ At(s, p).name = name
      f == ADD_ROOT(s, 1)
      sym == Slot(f, 1)
  IN With(First(s, Load(s, SYMBOLS), named), LAMBDA found :
       IF found # NULLOBJ THEN R(s, found)
       ELSE With(Keep(cons(Keep(make_symbol(f, name), sym), sym, SYMBOLS), SYMBOLS), LAMBDA t :
              Returning(R(t, Load(t, sym)))))

(* What print writes of an object, and of the rest of a list.              *)
RECURSIVE Text(_, _), TextOfList(_, _)
TextOfList(s, p) ==
  Text(s, car(s, p)) \o
    CASE cdr(s, p) = Nil -> <<")">>
      [] Type(s, cdr(s, p)) # "cell" -> <<".">> \o Text(s, cdr(s, p)) \o <<")">>
      [] OTHER -> TextOfList(s, cdr(s, p))

Text(s, p) ==
  LET type == Type(s, p)
  IN CASE type = "cell" -> <<"(">> \o TextOfList(s, p)
       [] type = "int" -> <<ToString(At(s, p).value)>>
       [] type = "symbol" -> <<At(s, p).name>>
       [] type = "true" -> <<"t">>
       [] type = "nil" -> <<"()">>
       [] OTHER -> <<type>>

print(s) ==
  IF Type(s, s.v) \in {"env", "none"} THEN error(s, "print: unknown type")
  ELSE [s EXCEPT !.out = @ \o Text(s, s.v) \o <<"\n">>]

length(s, list) == IF End(s, list) = Nil THEN Len(ListCells(s, list)) ELSE -1

is_list(s, p) == p = Nil \/ Type(s, p) = "cell"

-----------------------------------------------------------------------------
(* The reader.                                                             *)

Read(s) == Then(s, [op |-> "read"])

read_list(s) ==
  LET f == ADD_ROOT(s, 3) IN Read(Then(Set(f, Slot(f, 2), Nil), [op |-> "item"]))

(* read_list after the read_expr of its loop: obj is 1, head 2, last 3.    *)
ReadItem(s) ==
  LET t == Set(s, Slot(s, 1), s.v)
      more == cons(t, Slot(t, 1), Slot(t, 2))
  IN CASE s.v = Cparen -> Result(Returning(reverse(t, Load(t, Slot(t, 2)))))
       [] s.v = Dot -> Read(Then(t, [op |-> "last"]))
       [] OTHER -> Read(Then(Keep(more, Slot(t, 2)), [op |-> "item"]))

(* read_list after the two that follow a dot.                              *)
ReadLast(s) == Read(Then(Set(s, Slot(s, 3), s.v), [op |-> "close"]))

ReadClose(s) ==
  LET head == Load(s, Slot(s, 2))
      ret == reverse(s, head)
  IN IF s.v # Cparen THEN error(s, "Closed parenthesis expected after dot")
     ELSE Done(Store(ret.s, head, "cdr", Load(s, Slot(s, 3))), ret.v)

read_quote(s) ==
  LET f == ADD_ROOT(s, 2) IN Read(Then(Keep(intern(f, "quote"), Slot(f, 1)), [op |-> "quoted"]))

ReadQuoted(s) ==
  LET sym == Slot(s, 1)
      tmp == Slot(s, 2)
      list == Keep(cons(Set(s, tmp, s.v), tmp, NIL), tmp)
  IN Result(Returning(cons(list, sym, tmp)))

read_expr(s) ==
  LET c == Head(s.input)
      t == [s EXCEPT !.input = Tail(@)]
  IN CASE c = "(" -> read_list(t)
       [] c = ")" -> Value(t, Cparen)
       [] c = "." -> Value(t, Dot)
       [] c = "'" -> read_quote(t)
       [] OTHER -> Result(IF c \in Digits THEN make_int(t, Number(c)) ELSE intern(t, c))

-----------------------------------------------------------------------------
(* The evaluator.                                                          *)

add_variable(s, env, sym, val) ==
  LET f == ADD_ROOT(s, 2)
      vars == Slot(f, 1)
      tmp == Slot(f, 2)
      known == Set(f, vars, Field(f, Load(f, env), "vars"))
  IN With(Keep(acons(known, sym, val, vars), tmp), LAMBDA t :
       Drop(Store(t, Load(t, env), "vars", Load(t, tmp))))

(* push_env: map is 1, sym 2, val 3; a turn of its loop, and what follows. *)
ThenPush(s, env, vars, vals) ==
  Then(s, [op |-> "push", env |-> env, vars |-> vars, vals |-> vals])

push_env(s, env, vars, vals) ==
  LET f == ADD_ROOT(s, 3) IN ThenPush(Set(f, Slot(f, 1), Nil), env, vars, vals)

PushVar(s, env, vars, vals) ==
  LET map == Slot(s, 1)
      a == Set(s, Slot(s, 2), car(s, Load(s, vars)))
      b == Set(a, Slot(s, 3), car(a, Load(a, vals)))
  IN IF Type(s, Load(s, vals)) # "cell" THEN error(s, "number of argument does not match")
     ELSE With(Keep(acons(b, Slot(s, 2), Slot(s, 3), map), map), LAMBDA c :
          With(Set(c, vars, cdr(c, Load(c, vars))), LAMBDA d :
            ThenPush(Set(d, vals, cdr(d, Load(d, vals))), env, vars, vals)))

PushRest(s, env, vars, vals) ==
  LET map == Slot(s, 1)
      rest == Keep(acons(s, vars, vals, map), map)
  IN With(IF Load(s, vars) = Nil THEN s ELSE rest, LAMBDA t :
       Result(Returning(make_env(t, map, env))))

PushLoop(s, env, vars, vals) ==
  IF Type(s, Load(s, vars)) = "cell" THEN PushVar(s, env, vars, vals)
  ELSE PushRest(s, env, vars, vals)

(* progn: lp is 1, r is 2.                                                 *)
PrognLoop(s, env) ==
  LET lp == Load(s, Slot(s, 1))
  IN IF lp = Nil THEN Done(s, Load(s, Slot(s, 2)))
     ELSE Eval(Then(Set(s, Slot(s, 2), car(s, lp)), [op |-> "progn", env |-> env]), env, Slot(s, 2))

progn(s, env, list) ==
  LET f == ADD_ROOT(s, 2) IN PrognLoop(Set(f, Slot(f, 1), Load(f, list)), env)

PrognNext(s, env) ==
  LET t == Set(s, Slot(s, 2), s.v)
  IN PrognLoop(Set(t, Slot(t, 1), cdr(t, Load(t, Slot(t, 1)))), env)

(* eval_list: head is 1, expr 3, result 4; it runs on the caller's list.   *)
ListLoop(s, env, list) ==
  IF Load(s, list) = Nil THEN Result(Returning(reverse(s, Load(s, Slot(s, 1)))))
  ELSE Eval(Then(Set(s, Slot(s, 3), car(s, Load(s, list))),
                 [op |-> "arg", env |-> env, list |-> list]), env, Slot(s, 3))

eval_list(s, env, list) ==
  LET f == ADD_ROOT(s, 4) IN ListLoop(Set(f, Slot(f, 1), Nil), env, list)

ListNext(s, env, list) ==
  With(Keep(cons(Set(s, Slot(s, 4), s.v), Slot(s, 4), Slot(s, 1)), Slot(s, 1)), LAMBDA t :
    IF Failed(t) THEN t ELSE ListLoop(Set(t, list, cdr(t, Load(t, list))), env, list))

(* The frame of the caller goes when the call returns.                     *)
ThenDrop(s) == Then(s, [op |-> "drop"])

(* apply_func: params is 1, newenv 2, body 3.                              *)
apply_func(s, fn, args) ==
  LET f == ADD_ROOT(s, 3)
      a == Set(f, Slot(f, 1), Field(f, Load(f, fn), "params"))
      b == Set(a, Slot(f, 2), Field(a, Load(a, fn), "env"))
  IN push_env(Then(b, [op |-> "pushed", fn |-> fn]), Slot(f, 2), Slot(f, 1), args)

ApplyPushed(s, fn) ==
  LET t == Set(s, Slot(s, 2), s.v)
  IN progn(ThenDrop(Set(t, Slot(t, 3), Field(t, Load(t, fn), "body"))), Slot(t, 2), Slot(t, 3))

RECURSIVE FindIn(_, _, _)
FindIn(s, p, sym) ==
  LET bind == First(s, Field(s, p, "vars"), LAMBDA b : car(s, b) = sym)
  IN IF Type(s, p) # "env" THEN NULLOBJ
     ELSE IF bind # NULLOBJ THEN bind
     ELSE FindIn(s, Field(s, p, "up"), sym)

find(s, env, sym) == FindIn(s, Load(s, env), sym)

macroexpand(s, env, obj) ==
  LET p == Load(s, obj)
      bind == find(s, env, car(s, p))
      f == ADD_ROOT(s, 3)
      t == Set(Set(Set(f, Slot(f, 1), bind), Slot(f, 2), cdr(f, bind)), Slot(f, 3), cdr(f, p))
  IN IF /\ Type(s, p) = "cell" /\ Type(s, car(s, p)) = "symbol"
        /\ bind # NULLOBJ /\ Type(s, cdr(s, bind)) = "macro"
     THEN apply_func(ThenDrop(t), Slot(f, 2), Slot(f, 3))
     ELSE Value(s, p)

(* eval: fn is 1, expanded 2, args 3.                                      *)
eval(s, env, obj) ==
  LET p == Load(s, obj)
      type == Type(s, p)
      bind == find(s, env, p)
  IN CASE type \in {"int", "primitive", "function", "true", "nil"} -> Value(s, p)
       [] type = "symbol" ->
            IF bind = NULLOBJ THEN error(s, "Undefined symbol") ELSE Value(s, cdr(s, bind))
       [] type = "cell" ->
            macroexpand(Then(ADD_ROOT(s, 3), [op |-> "expanded", env |-> env, obj |-> obj]), env, obj)
       [] OTHER -> error(s, "eval: unknown type")

EvalExpanded(s, env, obj) ==
  LET t == Set(s, Slot(s, 2), s.v)
  IN IF s.v # Load(s, obj) THEN Eval(ThenDrop(t), env, Slot(s, 2))
     ELSE Eval(Then(Set(t, Slot(s, 1), car(t, Load(t, obj))),
                    [op |-> "head", env |-> env, obj |-> obj]), env, Slot(s, 1))

-----------------------------------------------------------------------------
(* The primitives.  Those of the first kind evaluate all their arguments   *)
(* with eval_list and work on the list of the values.                      *)

(* The values of a list of integers, and whether it is one.                *)
Ints(s, p) == [i \in DOMAIN ListCells(s, p) |-> Field(s, car(s, ListCells(s, p)[i]), "value")]

AllInts(s, p) == First(s, p, LAMBDA q : Type(s, q) # "int") = NULLOBJ

Total(ints) == FoldLeft(+, 0, ints)

prim_cons(s) == Value(Store(s, s.v, "cdr", car(s, cdr(s, s.v))), s.v)

(* prim_car and prim_cdr.                                                  *)
prim_part(s, field) ==
  IF Type(s, car(s, s.v)) # "cell" \/ cdr(s, s.v) # Nil THEN Malformed(s)
  ELSE Value(s, Field(s, car(s, s.v), field))

prim_setcar(s) ==
  IF length(s, s.v) # 2 \/ Type(s, car(s, s.v)) # "cell" THEN Malformed(s)
  ELSE Value(Store(s, car(s, s.v), "car", car(s, cdr(s, s.v))), car(s, s.v))

prim_plus(s) ==
  IF ~ AllInts(s, s.v) THEN Malformed(s) ELSE Result(make_int(s, Total(Ints(s, s.v))))

prim_minus(s) ==
  LET ints == Ints(s, s.v)
      difference == IF Len(ints) = 1 THEN 0 - ints[1] ELSE ints[1] - Total(Tail(ints))
  IN IF ~ AllInts(s, s.v) THEN Malformed(s) ELSE Result(make_int(s, difference))

prim_lt(s) ==
  IF length(s, s.v) # 2 \/ ~ AllInts(s, s.v) THEN Malformed(s)
  ELSE Value(s, Boolean(Ints(s, s.v)[1] < Ints(s, s.v)[2]))

prim_num_eq(s) ==
  IF ~ AllInts(s, s.v) THEN Malformed(s)
  ELSE Value(s, Boolean(Ints(s, s.v)[1] = Ints(s, s.v)[2]))

prim_eq(s) == Value(s, Boolean(car(s, s.v) = car(s, cdr(s, s.v))))

OnArguments(fn, s) ==
  CASE fn = "cons" -> prim_cons(s) [] fn = "car" -> prim_part(s, "car")
    [] fn = "cdr" -> prim_part(s, "cdr") [] fn = "setcar" -> prim_setcar(s)
    [] fn = "+" -> prim_plus(s) [] fn = "-" -> prim_minus(s) [] fn = "<" -> prim_lt(s)
    [] fn = "=" -> prim_num_eq(s) [] fn = "eq" -> prim_eq(s)

(* The others evaluate one argument, in a frame of their own.              *)
prim_setq(s, env, list) ==
  LET p == Load(s, list)
      bind == find(s, env, car(s, p))
      f == ADD_ROOT(s, 2)
      t == Set(Set(f, Slot(f, 1), bind), Slot(f, 2), car(f, cdr(f, p)))
  IN IF length(s, p) # 2 \/ Type(s, car(s, p)) # "symbol" \/ bind = NULLOBJ THEN Malformed(s)
     ELSE Eval(Then(t, [op |-> "value", fn |-> "setq", env |-> env]), env, Slot(f, 2))

SetqValue(s) == Done(Store(s, Load(s, Slot(s, 1)), "cdr", s.v), s.v)

prim_define(s, env, list) ==
  LET p == Load(s, list)
      f == ADD_ROOT(s, 2)
      t == Set(Set(f, Slot(f, 1), car(f, p)), Slot(f, 2), car(f, cdr(f, p)))
  IN IF length(s, p) # 2 \/ Type(s, car(s, p)) # "symbol" THEN Malformed(s)
     ELSE Eval(Then(t, [op |-> "value", fn |-> "define", env |-> env]), env, Slot(f, 2))

DefineValue(s, env) ==
  With(add_variable(Set(s, Slot(s, 2), s.v), env, Slot(s, 1), Slot(s, 2)), LAMBDA t :
    Done(t, Load(t, Slot(t, 2))))

(* println, panic and sleep.                                               *)
prim_one(fn, s, env, list) ==
  LET f == ADD_ROOT(s, 1)
  IN Eval(Then(Set(f, Slot(f, 1), car(f, Load(f, list))),
               [op |-> "value", fn |-> fn, env |-> env]), env, Slot(f, 1))

PrintlnValue(s) == Done(print(s), Nil)

PanicValue(s) == error(print(s), "minilisp error")

(* Sleep returns after a while.                                            *)
SleepValue(s) == IF Type(s, s.v) # "int" THEN Malformed(s) ELSE Done(s, Nil)

OnValue(fn, s, env) ==
  CASE fn = "setq" -> SetqValue(s) [] fn = "define" -> DefineValue(s, env)
    [] fn = "println" -> PrintlnValue(s) [] fn = "panic" -> PanicValue(s)
    [] fn = "sleep" -> SleepValue(s)

(* if: cond is 1, then 2, els 3.                                           *)
prim_if(s, env, list) ==
  LET f == ADD_ROOT(s, 3)
  IN IF length(s, Load(s, list)) < 2 THEN Malformed(s)
     ELSE Eval(Then(Set(f, Slot(f, 1), car(f, Load(f, list))),
                    [op |-> "if", env |-> env, list |-> list]), env, Slot(f, 1))

IfCond(s, env, list) ==
  LET f == Set(s, Slot(s, 1), s.v)
      rest == cdr(f, Load(f, list))
  IN CASE f.v # Nil -> Eval(ThenDrop(Set(f, Slot(f, 2), car(f, rest))), env, Slot(f, 2))
       [] cdr(f, rest) = Nil -> Done(f, Nil)
       [] OTHER -> progn(ThenDrop(Set(f, Slot(f, 3), cdr(f, rest))), env, Slot(f, 3))

(* while: cond is 1, exprs 2.                                              *)
WhileAgain(s, env, list) ==
  Eval(Then(s, [op |-> "while", env |-> env, list |-> list]), env, Slot(s, 1))

prim_while(s, env, list) ==
  LET f == ADD_ROOT(s, 2)
  IN IF length(s, Load(s, list)) < 2 THEN Malformed(s)
     ELSE WhileAgain(Set(f, Slot(f, 1), car(f, Load(f, list))), env, list)

WhileCond(s, env, list) ==
  LET t == Set(s, Slot(s, 2), cdr(s, Load(s, list)))
  IN IF s.v = Nil THEN Done(s, Nil)
     ELSE eval_list(Then(t, [op |-> "again", env |-> env, list |-> list]), env, Slot(s, 2))

(* The last evaluate none.                                                 *)
prim_quote(s, list) ==
  IF length(s, Load(s, list)) # 1 THEN Malformed(s) ELSE Value(s, car(s, Load(s, list)))

prim_gensym(s) ==
  Result(make_symbol([s EXCEPT !.count = @ + 1], "G__" \o ToString(s.count)))

(* The parameters are symbols, the rest after the dot as well.             *)
Parameters(s, p) ==
  /\ First(s, p, LAMBDA q : Type(s, q) # "symbol") = NULLOBJ
  /\ End(s, p) = Nil \/ Type(s, End(s, p)) = "symbol"

handle_function(s, env, list, type) ==
  LET p == Load(s, list)
      f == ADD_ROOT(s, 2)
      t == Set(Set(f, Slot(f, 1), car(f, p)), Slot(f, 2), cdr(f, p))
  IN IF \/ Type(s, p) # "cell" \/ ~ is_list(s, car(s, p)) \/ Type(s, cdr(s, p)) # "cell"
        \/ ~ Parameters(s, car(s, p))
     THEN R(Malformed(s), Nil)
     ELSE Returning(make_function(t, env, type, Slot(f, 1), Slot(f, 2)))

prim_lambda(s, env, list) ==
  Result(handle_function(s, env, list, "function"))

(* defun and defmacro: fn is 1, sym 2, rest 3.                             *)
handle_defun(s, env, list, type) ==
  LET p == Load(s, list)
      f == ADD_ROOT(s, 3)
      parts == Set(Set(f, Slot(f, 2), car(f, p)), Slot(f, 3), cdr(f, p))
      fn == Keep(handle_function(parts, env, Slot(f, 3), type), Slot(f, 1))
  IN IF Type(s, car(s, p)) # "symbol" \/ Type(s, cdr(s, p)) # "cell" THEN Malformed(s)
     ELSE With(add_variable(fn, env, Slot(f, 2), Slot(f, 1)), LAMBDA t :
            Done(t, Load(t, Slot(f, 1))))

prim_macroexpand(s, env, list) ==
  LET f == ADD_ROOT(s, 1)
  IN IF length(s, Load(s, list)) # 1 THEN Malformed(s)
     ELSE macroexpand(ThenDrop(Set(f, Slot(f, 1), car(f, Load(f, list)))), env, Slot(f, 1))

CallPrimitive(fn, s, env, list) ==
  CASE fn \in {"cons", "=", "eq"} /\ length(s, Load(s, list)) # 2 -> Malformed(s)
    [] fn \in {"cons", "car", "cdr", "setcar", "+", "-", "<", "=", "eq"} ->
         eval_list(Then(s, [op |-> "args", fn |-> fn]), env, list)
    [] fn \in {"println", "panic", "sleep"} -> prim_one(fn, s, env, list)
    [] fn = "setq" -> prim_setq(s, env, list) [] fn = "define" -> prim_define(s, env, list)
    [] fn = "if" -> prim_if(s, env, list) [] fn = "while" -> prim_while(s, env, list)
    [] fn = "quote" -> prim_quote(s, list) [] fn = "gensym" -> prim_gensym(s)
    [] fn = "lambda" -> prim_lambda(s, env, list)
    [] fn \in {"defun", "defmacro"} ->
         handle_defun(s, env, list, IF fn = "defun" THEN "function" ELSE "macro")
    [] fn = "macroexpand" -> prim_macroexpand(s, env, list)

(* apply, for a function that eval has found.                              *)
apply(s, env, fn, args) ==
  LET p == Load(s, fn)
  IN CASE ~ is_list(s, Load(s, args)) -> error(s, "argument must be a list")
       [] Type(s, p) = "primitive" -> CallPrimitive(At(s, p).fn, s, env, args)
       [] OTHER -> eval_list(Then(ADD_ROOT(s, 1), [op |-> "call", fn |-> fn]), env, args)

ApplyEvaluated(s, fn) ==
  apply_func(ThenDrop(Set(s, Slot(s, 1), s.v)), fn, Slot(s, 1))

EvalHead(s, env, obj) ==
  LET t == Set(Set(s, Slot(s, 1), s.v), Slot(s, 3), cdr(s, Load(s, obj)))
  IN IF Type(s, s.v) \notin {"primitive", "function"}
     THEN error(t, "The head of a list must be a function")
     ELSE apply(ThenDrop(t), env, Slot(s, 1), Slot(s, 3))

-----------------------------------------------------------------------------
(* The interpreter.                                                        *)

ENV == <<2, 1>>
EXPR == <<2, 2>>

add_primitive(s, env, name) ==
  LET f == ADD_ROOT(s, 2)
      sym == Slot(f, 1)
      prim == Slot(f, 2)
      named == Keep(intern(f, name), sym)
  IN Drop(add_variable(Keep(make_primitive(named, name), prim), env, sym, prim))

define_constants(s, env) ==
  LET f == ADD_ROOT(s, 1)
  IN Drop(add_variable(Keep(intern(f, "t"), Slot(f, 1)), env, Slot(f, 1), TRUEOBJ))

(* In the order of the code; those whose name is not in the input are left *)
(* out, to keep the memory small.                                          *)
Primitives ==
  <<"quote", "cons", "car", "cdr", "setq", "setcar", "while", "gensym", "+", "-", "<", "define",
    "defun", "defmacro", "macroexpand", "lambda", "if", "=", "eq", "println", "panic", "sleep">>

Named(input) ==
  LET Used(name) == \E i \in DOMAIN input : input[i] = name \/ (input[i] = "'" /\ name = "quote")
  IN SelectSeq(Primitives, Used)

(* lisp_repl_main up to define_primitives, and one of its calls.           *)
Started(s) ==
  define_constants(Keep(make_env(ADD_ROOT(s, 2), NIL, NIL), ENV), ENV)

define_primitives(s) == add_primitive([s EXCEPT !.todo = Tail(@)], ENV, Head(s.todo))

(* The loop of lisp_repl_main, after read_expr has returned.               *)
ReplRead(s) ==
  LET t == Set(s, EXPR, s.v)
  IN CASE s.v = Cparen -> error(t, "Stray close parenthesis")
       [] s.v = Dot -> error(t, "Stray dot")
       [] OTHER -> Eval(Then(t, [op |-> "print"]), ENV, EXPR)

(* Whatever is next.                                                       *)
Step(s) ==
  LET c == s.k[Len(s.k)]
      t == [s EXCEPT !.k = SubSeq(@, 1, Len(@) - 1)]
  IN CASE c.op = "read" -> read_expr(t) [] c.op = "item" -> ReadItem(t)
       [] c.op = "last" -> ReadLast(t) [] c.op = "close" -> ReadClose(t)
       [] c.op = "quoted" -> ReadQuoted(t) [] c.op = "eval" -> eval(t, c.env, c.obj)
       [] c.op = "expanded" -> EvalExpanded(t, c.env, c.obj)
       [] c.op = "head" -> EvalHead(t, c.env, c.obj)
       [] c.op = "call" -> ApplyEvaluated(t, c.fn) [] c.op = "pushed" -> ApplyPushed(t, c.fn)
       [] c.op = "push" -> PushLoop(t, c.env, c.vars, c.vals)
       [] c.op = "progn" -> PrognNext(t, c.env) [] c.op = "arg" -> ListNext(t, c.env, c.list)
       [] c.op = "drop" -> Drop(t) [] c.op = "args" -> OnArguments(c.fn, t)
       [] c.op = "value" -> OnValue(c.fn, t, c.env)
       [] c.op = "if" -> IfCond(t, c.env, c.list)
       [] c.op = "while" -> WhileCond(t, c.env, c.list)
       [] c.op = "again" -> WhileAgain(t, c.env, c.list)
       [] c.op = "repl" -> ReplRead(t) [] c.op = "print" -> print(t)

-----------------------------------------------------------------------------

(***************************************************************************)
(* The interpreter on programs that use every primitive, with memories of  *)
(* many sizes, so that the collector runs at every place it can, and       *)
(* beside it the same program with a memory that is never full.            *)
(***************************************************************************)
CONSTANTS
  MemorySizes,     \* in words
  Ample            \* a size that is never full

VARIABLES
  lisp,            \* the interpreter
  ample            \* the interpreter with the ample memory

lispVars == <<lisp, ample>>

Programs ==
  {
     << "(", "define", "x", "'", "(", "1", "2", "3", ")", ")", "(", "car", "(", "cdr", "x",
        ")", ")", "(", "cons", "x", "(", "cons", "x", "'", "(", "1", ".", "2", ")", ")", ")" >>,
     << "(", "defun", "f", "(", "n", ")", "(", "if", "(", "<", "n", "1", ")", "0", "(", "+",
        "n", "(", "-", "n", "1", ")", ")", ")", ")", "(", "f", "0", ")", "(", "f", "2", ")" >>,
     << "(", "defmacro", "q", "(", "a", ")", "(", "cons", "'", "quote", "(", "cons", "a", "(",
        ")", ")", ")", ")", "(", "q", "(", "1", "2", ")", ")", "(", "macroexpand", "(", "q",
        "z", ")", ")" >>,
     << "(", "define", "i", "0", ")", "(", "define", "l", "(", ")", ")", "(", "while", "(",
        "<", "i", "2", ")", "(", "setq", "l", "(", "cons", "i", "l", ")", ")", "(", "setq",
        "i", "(", "+", "i", "1", ")", ")", ")", "l" >>,
     << "(", "define", "c", "'", "(", "1", ".", "2", ")", ")", "(", "define", "d", "(", "cons",
        "c", "c", ")", ")", "(", "setcar", "c", "(", "lambda", "(", "x", ".", "r", ")", "r",
        ")", ")", "(", "eq", "(", "car", "d", ")", "c", ")", "(", "(", "car", "(", "cdr", "d",
        ")", ")", "1", "2", "3", ")" >>,
     << "(", "define", "g", "(", "gensym", ")", ")", "(", "println", "(", "cons", "g", "g",
        ")", ")", "(", "if", "(", "=", "1", "(", "-", "2", ")", ")", "1", "(", "sleep", "1",
        ")", "(", "eq", "g", "(", "gensym", ")", ")", ")", "(", "panic", "(", "-", "3", "1",
        ")", ")", "1" >>,
     << "(", "define", "k", "(", "(", "lambda", "(", "a", ")", "(", "lambda", "(", "b", ")",
        "(", "+", "a", "b", ")", ")", ")", "1", ")", ")", "(", "k", "2", ")", "(", "car", "k",
        ")", "1" >>
  }

(* lisp_init leaves gc_running as it was in the caller's block, which      *)
(* minilisp/minilisp.c has on the stack.                                   *)
LispInit ==
  \E program \in Programs, size \in MemorySizes, always_gc \in BOOLEAN, gc_running \in BOOLEAN :
    /\ lisp = Started(lisp_init(size, always_gc, gc_running, program, Named(program)))
    /\ ample = Started(lisp_init(Ample, FALSE, FALSE, program, Named(program)))

DefinePrimitive ==
  /\ lisp.todo # <<>> /\ ~ Failed(lisp)
  /\ lisp' = define_primitives(lisp)
  /\ ample' = define_primitives(ample)

ReadExpression ==
  /\ lisp.todo = <<>> /\ lisp.k = <<>> /\ lisp.input # <<>> /\ ~ Failed(lisp)
  /\ lisp' = Read(Then(lisp, [op |-> "repl"]))
  /\ ample' = Read(Then(ample, [op |-> "repl"]))

Continue ==
  /\ lisp.k # <<>> /\ ~ Failed(lisp)
  /\ lisp' = Step(lisp)
  /\ ample' = Step(ample)

LispNext == DefinePrimitive \/ ReadExpression \/ Continue

-----------------------------------------------------------------------------

(* The collector is not noticed: whenever it runs, and however often, the  *)
(* interpreter prints what it prints without it and fails where it fails   *)
(* without it, unless it stops for want of memory or on its own assertion. *)
GcTransparent ==
  IF lisp.error \in {"Memory exhausted", "gc_running"}
  THEN Len(lisp.out) <= Len(ample.out) /\ SubSeq(ample.out, 1, Len(lisp.out)) = lisp.out
  ELSE lisp.out = ample.out /\ lisp.error = ample.error /\ lisp.input = ample.input

(* Every object that can be reached is in the half in use, complete, below *)
(* the end of what is used, and overlaps no other.  The interpreter stops  *)
(* for want of memory only when all it holds can be reached, unless        *)
(* gc_running kept the collector away.                                     *)
MemorySound ==
  LET words(p) == p .. p + lisp.mem[p].size - 1
  IN With(Live(lisp), LAMBDA live :
       /\ \A p \in live : Type(lisp, p) \in DOMAIN Pointers
       /\ \A p \in live :
            /\ words(p) \subseteq lisp.memory .. lisp.memory + lisp.mem_nused - 1
            /\ words(p) \cap live = {p}
       /\ lisp.error = "Memory exhausted" /\ ~ lisp.gc_running =>
            Cardinality(UNION {words(p) : p \in live}) = lisp.mem_nused)
=============================================================================
