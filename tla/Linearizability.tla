--------------------------- MODULE Linearizability ---------------------------
(***************************************************************************)
(* The yardstick: linearizability of a complete history against the        *)
(* sequential stack, by search.  An operation is a record                  *)
(* [type, val, call, ret]; an empty pop has value NoVal.  Nothing here     *)
(* models code: the modules that do are compared with these definitions.   *)
(***************************************************************************)
EXTENDS Events

\* The operations that no other operation of the set entirely precedes.
MayBeFirst(ops) == {o \in ops : \A p \in ops : p.ret >= o.call}

ValuesIn(ops) == {o.val : o \in ops}

\* Of ops, those that a stack allows to come next, and what each makes of it.
NextOnStack(ops, stack) ==
  {o \in MayBeFirst(ops) :
     \/ o.type = "push"
     \/ o.type = "pop" /\ o.val # NoVal /\ stack # <<>> /\ Head(stack) = o.val
     \/ o.type = "pop" /\ o.val = NoVal /\ stack = <<>>}

StackAfter(stack, o) ==
  IF o.type = "push" THEN <<o.val>> \o stack
  ELSE IF o.val = NoVal THEN stack ELSE Tail(stack)

\* Whether the rest s[1] of the operations can follow, with stack s[2].
LinearizableStack(ops) ==
  LET order[s \in (SUBSET ops) \X Seq(ValuesIn(ops))] ==
        s[1] = {} \/ \E o \in NextOnStack(s[1], s[2]) :
                       order[<<s[1] \ {o}, StackAfter(s[2], o)>>]
  IN  order[<<ops, <<>>>>]

\* The same for the sequential queue, whose removals are never empty.
NextOnQueue(ops, queue) ==
  {o \in MayBeFirst(ops) :
     o.type \in AddTypes \/ (o.type \in RmvTypes /\ queue # <<>> /\ Head(queue) = o.val)}

QueueAfter(queue, o) ==
  IF o.type \in AddTypes THEN Append(queue, o.val) ELSE Tail(queue)

LinearizableQueue(ops) ==
  LET order[s \in (SUBSET ops) \X Seq(ValuesIn(ops))] ==
        s[1] = {} \/ \E o \in NextOnQueue(s[1], s[2]) :
                       order[<<s[1] \ {o}, QueueAfter(s[2], o)>>]
  IN  order[<<ops, <<>>>>]
=============================================================================
