------------------------------ MODULE Language ------------------------------
(***************************************************************************)
(* What the language reference (help/RefCore.md) says a program does: an   *)
(* interpreter of the statements of Frontend's sources, which knows        *)
(* nothing of labels, jumps and temps.                                     *)
(***************************************************************************)
EXTENDS Frontend

VARIABLES
  ip,       (* the statement to execute next                                 *)
  env,      (* values of the program's variables                             *)
  said      (* numbers of the plain statements executed                      *)

langVars == <<ip, env, said>>

Openers  == {"for", "while", "do", "if", "select"}
Closers  == {"next", "wend", "loop", "endif", "endselect"}
KindOf(op) == CASE op = "for" -> "for" [] op = "while" -> "while" [] op = "do" -> "do"
                [] op = "if" -> "if" [] op = "select" -> "select"

(* The blocks a statement is in, outermost first: those opened before it     *)
(* that are not closed before it.                                            *)
Depth(a, b) == Cardinality({k \in a .. b : source[k].op \in Openers})
               - Cardinality({k \in a .. b : source[k].op \in Closers})
EndOf(b)    == CHOOSE k \in b + 1 .. Len(source) :
                 Depth(b, k) = 0 /\ \A j \in b .. k - 1 : Depth(b, j) > 0
Blocks(k)   == {b \in 1 .. k - 1 : source[b].op \in Openers /\ k <= EndOf(b)}
BeginOf(k)  == CHOOSE b \in Blocks(k) : \A c \in Blocks(k) : c <= b

(* The branches of an IF or a SELECT: the statements that begin them.        *)
Branches(b) == {k \in b .. EndOf(b) : /\ source[k].op \in {"if", "elseif", "else", "case"}
                                      /\ (k = b \/ (BeginOf(k) = b /\ source[k].op # "if"))}

TrueFor(r)    == \/ r.ro \in Relations /\ Holds(r.ro, env[r.x], r.val)
                 \/ r.ro = "true"
TrueNow(cond) == \E a \in DOMAIN cond : \A r \in DOMAIN cond[a] : TrueFor(cond[a][r])
Goes(s)       == s.cond = <<>> \/ (TrueNow(s.cond) <=> ~s.until)      (* on looping *)
MatchesCase(v, e) == IF e.range THEN e.lo <= v /\ v <= e.hi ELSE Holds(e.is, v, e.lo)
Applies(b, k) == CASE source[k].op \in {"if", "elseif"} -> TrueNow(source[k].cond)
                   [] source[k].op = "else" -> TRUE
                   [] source[k].op = "case" ->
                        \/ source[k].exprs = <<>>
                        \/ \E j \in DOMAIN source[k].exprs :
                             MatchesCase(env[source[b].x], source[k].exprs[j])

-----------------------------------------------------------------------------
Doing(op) == ip \in DOMAIN source /\ source[ip].op = op
JumpTo(k) == ip' = k
Proceed   == ip' = ip + 1
Now       == source[ip]

Say      == Doing("stmt") /\ Proceed /\ said' = Append(said, Now.num) /\ UNCHANGED env
Count    == Doing("inc") /\ Proceed /\ env' = [env EXCEPT ![Now.x] = @ + 1] /\ UNCHANGED said
CallIt   == Doing("call") /\ Proceed /\ UNCHANGED <<env, said>>

(* The first branch that applies, or none.                                   *)
Choose   == /\ ip \in DOMAIN source /\ Now.op \in {"if", "select"}
            /\ LET fits == {k \in Branches(ip) : Applies(ip, k)}
               IN JumpTo(IF fits = {} THEN EndOf(ip) + 1 ELSE Min(fits) + 1)
            /\ UNCHANGED <<env, said>>
EndBranch == /\ ip \in DOMAIN source /\ Now.op \in {"elseif", "else", "case"}
             /\ JumpTo(EndOf(BeginOf(ip)) + 1)
             /\ UNCHANGED <<env, said>>
EndBlock == /\ ip \in DOMAIN source /\ Now.op \in {"endif", "endselect"}
            /\ Proceed /\ UNCHANGED <<env, said>>

EnterFor == /\ Doing("for")
            /\ env' = [env EXCEPT ![Now.x] = 1]
            /\ IF 1 <= env[4] THEN Proceed ELSE JumpTo(EndOf(ip) + 1)
            /\ UNCHANGED said
NextFor  == /\ Doing("next")
            /\ LET b == BeginOf(ip)  v == env[source[b].x] + 1
               IN /\ env' = [env EXCEPT ![source[b].x] = v]
                  /\ IF v <= env[4] THEN JumpTo(b + 1) ELSE Proceed
            /\ UNCHANGED said

(* WHILE and DO test before the body, LOOP behind it.                        *)
Enter    == /\ ip \in DOMAIN source /\ Now.op \in {"while", "do"}
            /\ IF Goes(Now) THEN Proceed ELSE JumpTo(EndOf(ip) + 1)
            /\ UNCHANGED <<env, said>>
Again    == /\ ip \in DOMAIN source /\ Now.op \in {"wend", "loop"}
            /\ IF Goes(Now) THEN JumpTo(BeginOf(ip)) ELSE Proceed
            /\ UNCHANGED <<env, said>>

(* The block that EXIT or CONTINUE names: of each kind of the list the       *)
(* innermost inside which the statement and the blocks before are; without a *)
(* list the innermost loop.                                                  *)
Innermost(from, kinds) ==
  LET fits == {b \in Blocks(from) : KindOf(source[b].op) \in kinds} IN Max(fits)
Named(s) == IF s.kinds = <<>> THEN Innermost(ip, {"for", "while", "do"})
            ELSE FoldLeft(LAMBDA k, kind : Innermost(k, {kind}), ip, s.kinds)
Leave    == Doing("exit") /\ JumpTo(EndOf(Named(Now)) + 1) /\ UNCHANGED <<env, said>>
Iterate  == /\ Doing("continue")
            /\ LET b == Named(Now) IN JumpTo(IF source[b].op = "for" THEN EndOf(b) ELSE b)
            /\ UNCHANGED <<env, said>>

Interpret == \/ Say \/ Count \/ CallIt \/ Choose \/ EndBranch \/ EndBlock
             \/ EnterFor \/ NextFor \/ Enter \/ Again \/ Leave \/ Iterate

Interpreted == ip = Len(source) + 1
=============================================================================
