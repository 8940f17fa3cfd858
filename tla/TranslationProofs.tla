-------------------------- MODULE TranslationProofs --------------------------
(***************************************************************************)
(* Proofs about Translation, for every base address, step budget, set of   *)
(* logical immediates and set of tests: the dead-flag pass changes nothing *)
(* a program can observe, a block the evaluator runs follows the           *)
(* interpreter's trace, and so NxIR and the interpreter end a test in the  *)
(* same state; what is lifted verifies, and the evaluator reads no value   *)
(* that nothing defined; the layout by the profile of a run follows it.    *)
(***************************************************************************)
EXTENDS Translation, AlgorithmProofs

-----------------------------------------------------------------------------
(* Dead-flag elimination: runs that differ in the recorded flags only.     *)

\* Two states of an evaluation that differ in the recorded flag source only,
\* and the first of which has read no undefined value that the second has not.
StateOk(e) == e = [f \in Fields |-> e[f]] /\ e.readUndefined \in BOOLEAN
Near(x, y) ==
    /\ StateOk(x) /\ StateOk(y)
    /\ \A f \in Fields \ {"pending", "readUndefined"} : x[f] = y[f]
    /\ x.readUndefined => y.readUndefined
Same(x, y) == Near(x, y) /\ (x.status = "running" => x.pending = y.pending)
Put(e, f, z) == [e EXCEPT ![f] = z]

LEMMA PutKeeps ==
    ASSUME NEW e, StateOk(e), NEW f \in Fields \ {"readUndefined"}, NEW z
    PROVE  /\ StateOk(Put(e, f, z)) /\ Put(e, f, z)[f] = z
           /\ \A g \in Fields \ {f} : Put(e, f, z)[g] = e[g]
<1> DEFINE h == [e EXCEPT ![f] = z]
<1>1. e = [g \in Fields |-> e[g]] /\ e.readUndefined \in BOOLEAN /\ f \in Fields /\ "readUndefined" \in Fields
  BY DEF StateOk, Fields
<1>2. h = [g \in Fields |-> h[g]] /\ h[f] = z /\ \A g \in Fields \ {f} : h[g] = e[g]
  BY <1>1
<1> HIDE DEF h
<1>3. h.readUndefined = e.readUndefined
  BY <1>1, <1>2
<1>4. StateOk(h)
  BY <1>1, <1>2, <1>3 DEF StateOk
<1> QED
  BY <1>2, <1>4 DEF Put, h

LEMMA PutNear ==
    ASSUME NEW x, NEW y, Near(x, y), NEW f \in Fields \ {"readUndefined"}, NEW z
    PROVE  Near(Put(x, f, z), Put(y, f, z))
<1> DEFINE p == Put(x, f, z)
           q == Put(y, f, z)
<1>1. /\ StateOk(p) /\ p[f] = z /\ \A g \in Fields \ {f} : p[g] = x[g]
      /\ StateOk(q) /\ q[f] = z /\ \A g \in Fields \ {f} : q[g] = y[g]
  BY PutKeeps DEF Near
<1> HIDE DEF p, q
<1>2. \A g \in Fields \ {"pending", "readUndefined"} : p[g] = q[g]
  BY <1>1 DEF Near
<1>3. p.readUndefined => q.readUndefined
  BY <1>1 DEF Near, Fields
<1>4. Near(p, q)
  BY <1>1, <1>2, <1>3 DEF Near
<1> QED
  BY <1>4 DEF p, q

LEMMA PutOnce ==
    ASSUME NEW x, NEW y, Near(x, y), NEW z
    PROVE  Near(x, Put(y, "pending", z))
<1> DEFINE q == Put(y, "pending", z)
<1>1. StateOk(q) /\ \A g \in Fields \ {"pending"} : q[g] = y[g]
  BY PutKeeps DEF Near, Fields
<1> HIDE DEF q
<1>2. \A g \in Fields \ {"pending", "readUndefined"} : x[g] = q[g]
  BY <1>1 DEF Near
<1>3. x.readUndefined => q.readUndefined
  BY <1>1 DEF Near, Fields
<1>4. Near(x, q)
  BY <1>1, <1>2, <1>3 DEF Near
<1> QED
  BY <1>4 DEF q

LEMMA ReadingKeeps ==
    ASSUME NEW e, StateOk(e), NEW op
    PROVE  /\ StateOk(Reading(e, op)) /\ \A g \in Fields \ {"readUndefined"} : Reading(e, op)[g] = e[g]
           /\ Reading(e, op).readUndefined = (e.readUndefined \/ \E use \in Operands(op) : use[1] \notin e.defined)
<1> DEFINE w == e.readUndefined \/ \E use \in Operands(op) : use[1] \notin e.defined
           h == [e EXCEPT !.readUndefined = w]
<1>1. Reading(e, op) = h
  BY DEF Reading
<1>2. w \in BOOLEAN
  OBVIOUS
<1> HIDE DEF w
<1>3. e = [g \in Fields |-> e[g]] /\ "readUndefined" \in Fields
  BY DEF StateOk, Fields
<1>4. h = [g \in Fields |-> h[g]] /\ h.readUndefined = w /\ \A g \in Fields \ {"readUndefined"} : h[g] = e[g]
  BY <1>3
<1> HIDE DEF h
<1>5. StateOk(h)
  BY <1>2, <1>4 DEF StateOk
<1> QED
  BY <1>1, <1>4, <1>5 DEF w

LEMMA ReadingNear ==
    ASSUME NEW x, NEW y, Near(x, y), NEW op
    PROVE  /\ Near(Reading(x, op), Reading(y, op)) /\ Near(x, Reading(y, op))
           /\ Reading(x, op).pending = x.pending /\ Reading(y, op).pending = y.pending
           /\ Reading(x, op).status = x.status /\ Reading(y, op).status = y.status
<1> DEFINE p == Reading(x, op)
           q == Reading(y, op)
           w == \E use \in Operands(op) : use[1] \notin x.defined
<1>1. x.defined = y.defined /\ StateOk(x) /\ StateOk(y)
  BY DEF Near, Fields
<1>2. /\ StateOk(p) /\ \A g \in Fields \ {"readUndefined"} : p[g] = x[g]
      /\ p.readUndefined = (x.readUndefined \/ w)
      /\ StateOk(q) /\ \A g \in Fields \ {"readUndefined"} : q[g] = y[g]
      /\ q.readUndefined = (y.readUndefined \/ w)
  BY <1>1, ReadingKeeps
<1> HIDE DEF p, q, w
<1>3. /\ \A g \in Fields \ {"pending", "readUndefined"} : p[g] = q[g]
      /\ \A g \in Fields \ {"pending", "readUndefined"} : x[g] = q[g]
  BY <1>2 DEF Near
<1>4. (p.readUndefined => q.readUndefined) /\ (x.readUndefined => q.readUndefined)
  <2>1. (x.readUndefined => y.readUndefined) /\ x.readUndefined \in BOOLEAN /\ y.readUndefined \in BOOLEAN
    BY DEF Near, StateOk
  <2> QED
    BY <1>2, <2>1
<1>5. Near(p, q) /\ Near(x, q)
  BY <1>1, <1>2, <1>3, <1>4 DEF Near
<1>6. p.pending = x.pending /\ q.pending = y.pending /\ p.status = x.status /\ q.status = y.status
  BY <1>2 DEF Fields
<1> QED
  BY <1>5, <1>6 DEF p, q

\* What an effect does to two states of which only the recorded flag sources differ.
NearEffects(x, y, op) ==
    /\ Near(Effects(x, op), Effects(y, op))
    /\ x.pending = y.pending => Effects(x, op).pending = Effects(y, op).pending
    /\ op.k = "SetFlags" => Effects(x, op).pending = Effects(y, op).pending /\ Near(x, Effects(y, op))
    /\ Effects(x, op).status = x.status

LEMMA EffectsNear ==
    ASSUME NEW x, NEW y, Near(x, y), NEW op
    PROVE  NearEffects(x, y, op)
<1> USE DEF NearEffects
<1>1. x.cpu = y.cpu /\ x.mem = y.mem /\ x.values = y.values
  BY DEF Near, Fields
<1>2. Held(x, op) = Held(y, op) /\ StoreTo(x, op) = StoreTo(y, op)
  BY <1>1 DEF Held, StoreTo
<1>3. ASSUME NEW f \in Fields \ {"readUndefined", "status"}, NEW z
      PROVE  /\ Near(Put(x, f, z), Put(y, f, z)) /\ Put(x, f, z).status = x.status
             /\ x.pending = y.pending => Put(x, f, z).pending = Put(y, f, z).pending
             /\ f = "pending" => Put(x, f, z).pending = Put(y, f, z).pending
  <2>1. f \in Fields \ {"readUndefined"}
    OBVIOUS
  <2>2. /\ Put(x, f, z)[f] = z /\ \A g \in Fields \ {f} : Put(x, f, z)[g] = x[g]
        /\ Put(y, f, z)[f] = z /\ \A g \in Fields \ {f} : Put(y, f, z)[g] = y[g]
    BY <2>1, PutKeeps DEF Near
  <2>3. Put(x, f, z).status = x.status
    BY <2>2 DEF Fields
  <2>4. (x.pending = y.pending \/ f = "pending") => Put(x, f, z).pending = Put(y, f, z).pending
    BY <2>2 DEF Fields
  <2> QED
    BY <2>1, <2>3, <2>4, PutNear
<1>4. {"cpu", "mem", "pending"} \subseteq Fields \ {"readUndefined", "status"}
  BY DEF Fields
<1> DEFINE Good(p, q) == /\ Near(p, q) /\ p.status = x.status
                         /\ x.pending = y.pending => p.pending = q.pending
<1>5. ASSUME NEW f \in {"cpu", "mem", "pending"}, NEW z PROVE Good(Put(x, f, z), Put(y, f, z))
  BY <1>3, <1>4
<1>6. CASE op.k = "SetReg"
  <2> DEFINE z == WriteReg(x.cpu, op.reg, x.values[op.value])
  <2>1. Effects(x, op) = Put(x, "cpu", z) /\ Effects(y, op) = Put(y, "cpu", z)
    BY <1>1, <1>6 DEF Effects, Put, StoreOps
  <2> HIDE DEF z
  <2> QED
    BY <1>5, <1>6, <2>1
<1>7. CASE op.k \in StoreOps
  <2> DEFINE z == StoreTo(x, op)
  <2>1. Effects(x, op) = Put(x, "mem", z) /\ Effects(y, op) = Put(y, "mem", z)
    BY <1>2, <1>7 DEF Effects, Put, StoreOps
  <2> HIDE DEF z
  <2>2. op.k # "SetFlags"
    BY <1>7 DEF StoreOps
  <2> QED
    BY <1>5, <2>1, <2>2
<1>8. CASE op.k = "SetFlags"
  <2> DEFINE z == [op |-> op.op, lhs |-> x.values[op.lhs], rhs |-> x.values[op.rhs]]
  <2>1. Effects(x, op) = Put(x, "pending", z) /\ Effects(y, op) = Put(y, "pending", z)
    BY <1>1, <1>8 DEF Effects, Put, StoreOps
  <2> HIDE DEF z
  <2> QED
    BY <1>3, <1>4, <2>1, PutOnce
<1>9. CASE op.k = "LoadExclusive"
  <2> DEFINE z == [x.cpu EXCEPT !.monitor = [address |-> x.values[op.address], size |-> TypeCells(op.ty)]]
  <2>1. Effects(x, op) = Put(x, "cpu", z) /\ Effects(y, op) = Put(y, "cpu", z)
    BY <1>1, <1>9 DEF Effects, Put, StoreOps
  <2> HIDE DEF z
  <2> QED
    BY <1>5, <1>9, <2>1
<1>10. CASE op.k = "StoreExclusive"
  <2> DEFINE z == [x.cpu EXCEPT !.monitor = NoMonitor]
             w == IF Held(x, op) THEN StoreTo(x, op) ELSE x.mem
             p == Put(x, "mem", w)
             q == Put(y, "mem", w)
  <2>1. Effects(x, op) = [x EXCEPT !.mem = w, !.cpu = z] /\ Effects(y, op) = [y EXCEPT !.mem = w, !.cpu = z]
    BY <1>1, <1>2, <1>10 DEF Effects, StoreOps
  <2> HIDE DEF z, w
  <2>2. Effects(x, op) = Put(p, "cpu", z) /\ Effects(y, op) = Put(q, "cpu", z)
    BY <2>1 DEF Put
  <2>3. Near(p, q) /\ p.status = x.status /\ (x.pending = y.pending => p.pending = q.pending)
    BY <1>5
  <2> HIDE DEF p, q
  <2>4. Near(Put(p, "cpu", z), Put(q, "cpu", z))
    BY <2>3, <1>4, PutNear
  <2>5. Put(p, "cpu", z).status = p.status /\ Put(p, "cpu", z).pending = p.pending /\ Put(q, "cpu", z).pending = q.pending
    BY <2>3, <1>4, PutKeeps DEF Near, Fields
  <2> QED
    BY <1>10, <2>2, <2>3, <2>4, <2>5
<1>11. CASE op.k \in {"FpMoveImmediate", "FpScalarBinary"}
  <2> DEFINE z == ExecuteData(op, x.cpu)
  <2>1. Effects(x, op) = Put(x, "cpu", z) /\ Effects(y, op) = Put(y, "cpu", z)
    BY <1>1, <1>11 DEF Effects, Put, StoreOps
  <2> HIDE DEF z
  <2> QED
    BY <1>5, <1>11, <2>1
<1>12. CASE op.k = "FpCompare"
  <2> DEFINE z == ExecuteData(op, x.cpu)
             p == Put(x, "cpu", z)
             q == Put(y, "cpu", z)
  <2>1. Effects(x, op) = [x EXCEPT !.cpu = z, !.pending = NoFlagSource]
        /\ Effects(y, op) = [y EXCEPT !.cpu = z, !.pending = NoFlagSource]
    BY <1>1, <1>12 DEF Effects, StoreOps
  <2> HIDE DEF z
  <2>2. Effects(x, op) = Put(p, "pending", NoFlagSource) /\ Effects(y, op) = Put(q, "pending", NoFlagSource)
    BY <2>1 DEF Put
  <2>3. Near(p, q) /\ p.status = x.status
    BY <1>5
  <2> HIDE DEF p, q
  <2>4. Near(Put(p, "pending", NoFlagSource), Put(q, "pending", NoFlagSource))
    BY <2>3, <1>4, PutNear
  <2>5. Put(p, "pending", NoFlagSource).status = p.status
        /\ Put(p, "pending", NoFlagSource).pending = NoFlagSource /\ Put(q, "pending", NoFlagSource).pending = NoFlagSource
    BY <2>3, <1>4, PutKeeps DEF Near, Fields
  <2> QED
    BY <1>12, <2>2, <2>3, <2>4, <2>5
<1>13. CASE op.k \in {"VectorBinary", "VectorCompare", "VectorShuffle"}
  <2> DEFINE z == VectorEffect(x.cpu, op)
  <2>1. Effects(x, op) = Put(x, "cpu", z) /\ Effects(y, op) = Put(y, "cpu", z)
    BY <1>1, <1>13 DEF Effects, Put, StoreOps
  <2> HIDE DEF z
  <2> QED
    BY <1>5, <1>13, <2>1
<1>14. CASE op.k \notin StoreOps \cup {"SetReg", "SetFlags", "LoadExclusive", "StoreExclusive", "FpMoveImmediate",
                                       "FpScalarBinary", "FpCompare", "VectorBinary", "VectorCompare", "VectorShuffle"}
  <2>1. Effects(x, op) = x /\ Effects(y, op) = y
    BY <1>14 DEF Effects
  <2> QED
    BY <1>14, <2>1
<1> QED
  BY <1>6, <1>7, <1>8, <1>9, <1>10, <1>11, <1>12, <1>13, <1>14

LEMMA FaultingNear ==
    ASSUME NEW x, NEW y, Near(x, y)
    PROVE  Near(Faulting(x), Faulting(y)) /\ Faulting(x).status = "fault"
<1> DEFINE p == Put(x, "status", "fault")
           q == Put(y, "status", "fault")
<1>1. Faulting(x) = p /\ Faulting(y) = q
  BY DEF Faulting, Put
<1>2. Near(p, q) /\ p.status = "fault"
  BY PutNear, PutKeeps DEF Near, Fields
<1> QED
  BY <1>1, <1>2

LEMMA DefiningNear ==
    ASSUME NEW x, NEW y, Near(x, y), NEW v, NEW w
    PROVE  /\ Near(Defining(x, v, w), Defining(y, v, w)) /\ Defining(x, v, w).status = x.status
           /\ Defining(x, v, w).pending = x.pending /\ Defining(y, v, w).pending = y.pending
<1> DEFINE z == [x.values EXCEPT ![v] = w]
           d == x.defined \cup {v}
           p == Put(x, "values", z)
           q == Put(y, "values", z)
<1>1. x.values = y.values /\ x.defined = y.defined
  BY DEF Near, Fields
<1>2. Defining(x, v, w) = [x EXCEPT !.values = z, !.defined = d] /\ Defining(y, v, w) = [y EXCEPT !.values = z, !.defined = d]
  BY <1>1 DEF Defining
<1> HIDE DEF z, d
<1>3. Defining(x, v, w) = Put(p, "defined", d) /\ Defining(y, v, w) = Put(q, "defined", d)
  BY <1>2 DEF Put
<1>4. Near(p, q) /\ p.status = x.status /\ p.pending = x.pending /\ q.pending = y.pending
  BY PutNear, PutKeeps DEF Near, Fields
<1> HIDE DEF p, q
<1>5. /\ Near(Put(p, "defined", d), Put(q, "defined", d))
      /\ Put(p, "defined", d).status = p.status /\ Put(p, "defined", d).pending = p.pending
      /\ Put(q, "defined", d).pending = q.pending
  BY <1>4, PutNear, PutKeeps DEF Near, Fields
<1> QED
  BY <1>3, <1>4, <1>5

LEMMA SameFaults ==
    ASSUME NEW x, NEW y, Near(x, y), NEW op, NEW pages
    PROVE  /\ Faults(x, op, pages) = Faults(y, op, pages) /\ Computed(x, op) = Computed(y, op)
<1>1. x.cpu = y.cpu /\ x.mem = y.mem /\ x.values = y.values
  BY DEF Near, Fields
<1>2. Held(x, op) = Held(y, op)
  BY <1>1 DEF Held
<1>3. Faults(x, op, pages) = Faults(y, op, pages)
  BY <1>1, <1>2 DEF Faults
<1>4. Computed(x, op) = Computed(y, op)
  BY <1>1, <1>2, Zenon DEF Computed
<1> QED
  BY <1>3, <1>4

LEMMA OpNear ==
    ASSUME NEW x, NEW y, Near(x, y), NEW inst, NEW pages
    PROVE  /\ Near(ExecuteOp(inst, x, pages), ExecuteOp(inst, y, pages))
           /\ Same(x, y) => Same(ExecuteOp(inst, x, pages), ExecuteOp(inst, y, pages))
           /\ IsSetFlags(inst) /\ inst.result = NoValue =>
                 /\ Same(ExecuteOp(inst, x, pages), ExecuteOp(inst, y, pages))
                 /\ Near(x, ExecuteOp(inst, y, pages))
<1> DEFINE op == inst.op
           p == Reading(x, op)
           q == Reading(y, op)
           p1 == Effects(p, op)
           q1 == Effects(q, op)
           w == Computed(x, op)
           sx == ExecuteOp(inst, x, pages)
           sy == ExecuteOp(inst, y, pages)
<1>1. x.status = y.status
  BY DEF Near, Fields
<1>2. CASE x.status # "running"
  <2>1. sx = x /\ sy = y
    BY <1>1, <1>2 DEF ExecuteOp
  <2>2. Same(x, y)
    BY <1>2 DEF Same
  <2> QED
    BY <2>1, <2>2
<1>3. CASE x.status = "running"
  <2>1. /\ Near(p, q) /\ Near(x, q) /\ p.pending = x.pending /\ q.pending = y.pending /\ p.status = x.status
    BY ReadingNear
  <2>2. Faults(x, op, pages) = Faults(y, op, pages)
    BY SameFaults
  <2>3. CASE Faults(x, op, pages)
    <3>1. sx = Faulting(p) /\ sy = Faulting(q)
      BY <1>1, <1>3, <2>2, <2>3 DEF ExecuteOp
    <3>2. Near(Faulting(p), Faulting(q)) /\ Faulting(p).status = "fault"
      BY <2>1, FaultingNear
    <3>3. ~IsSetFlags(inst)
      BY <2>3 DEF IsSetFlags, Faults, LoadOps, StoreOps
    <3> HIDE DEF p, q, sx, sy
    <3> QED
      BY <3>1, <3>2, <3>3 DEF Same, sx, sy
  <2>4. CASE ~Faults(x, op, pages)
    <3>1. /\ Near(p1, q1) /\ p1.status = p.status
          /\ p.pending = q.pending => p1.pending = q1.pending
          /\ op.k = "SetFlags" => p1.pending = q1.pending
      <4> HIDE DEF p, q, op, p1, q1
      <4>1. NearEffects(p, q, op)
        BY <2>1, EffectsNear
      <4> QED
        BY <4>1 DEF NearEffects, p1, q1
    <3>4. Near(x, q) => (op.k = "SetFlags" => Near(x, q1))
      <4> HIDE DEF q, op
      <4>1. Near(x, q) => NearEffects(x, q, op)
        BY EffectsNear
      <4> QED
        BY <4>1 DEF NearEffects
    <3>2. CASE inst.result = NoValue
      <4>1. sx = p1 /\ sy = q1
        BY <1>1, <1>3, <2>2, <2>4, <3>2 DEF ExecuteOp
      <4> HIDE DEF p, q, p1, q1, sx, sy
      <4> QED
        BY <1>3, <2>1, <3>1, <3>4, <4>1 DEF Same, sx, sy, IsSetFlags
    <3>3. CASE inst.result # NoValue
      <4>0. Computed(y, op) = w
        BY SameFaults
      <4>1. sx = Defining(p1, inst.result, Computed(x, op)) /\ sy = Defining(q1, inst.result, Computed(y, op))
        BY <1>1, <1>3, <2>2, <2>4, <3>3 DEF ExecuteOp
      <4> HIDE DEF p, q, p1, q1, sx, sy, w
      <4>2. /\ Near(Defining(p1, inst.result, w), Defining(q1, inst.result, w))
            /\ Defining(p1, inst.result, w).pending = p1.pending /\ Defining(q1, inst.result, w).pending = q1.pending
        BY <3>1, DefiningNear
      <4>3. Computed(x, op) = w
        BY DEF w
      <4> QED
        BY <1>3, <2>1, <3>1, <3>3, <4>0, <4>1, <4>2, <4>3 DEF Same, sx, sy
    <3> QED
      BY <3>2, <3>3
  <2> QED
    BY <2>3, <2>4
<1> QED
  BY <1>2, <1>3

\* The instructions that the numbers of a name.
Mapped(insts, a) == [i \in DOMAIN a |-> insts[a[i]]]

LEMMA MappedMore ==
    ASSUME NEW insts, IsSeq(insts), NEW n \in Nat, n = Len(insts), NEW a \in Seq(1 .. n)
    PROVE  /\ IsSeq(Mapped(insts, a))
           /\ \A k \in 1 .. n : Mapped(insts, Append(a, k)) = Mapped(insts, a) \o <<insts[k]>>
<1>1. PICK T : insts \in Seq(T)
  BY DEF IsSeq
<1>2. DOMAIN a = 1 .. Len(a) /\ Len(a) \in Nat /\ \A c \in DOMAIN a : a[c] \in 1 .. n
  OBVIOUS
<1>3. \A k \in 1 .. n : insts[k] \in T
  BY <1>1
<1> DEFINE q == Mapped(insts, a)
<1>4. q \in Seq(T) /\ Len(q) = Len(a) /\ \A c \in 1 .. Len(a) : q[c] = insts[a[c]]
  BY <1>2, <1>3 DEF Mapped
<1> HIDE DEF q
<1>5. ASSUME NEW k \in 1 .. n PROVE Mapped(insts, Append(a, k)) = q \o <<insts[k]>>
  <2> DEFINE b == Append(a, k)
             l == Mapped(insts, b)
             r == q \o <<insts[k]>>
  <2>1. b \in Seq(1 .. n) /\ Len(b) = Len(a) + 1 /\ b[Len(a) + 1] = k /\ \A c \in 1 .. Len(a) : b[c] = a[c]
    BY <1>2
  <2> HIDE DEF b
  <2>2. l \in Seq(T) /\ Len(l) = Len(a) + 1 /\ \A c \in 1 .. Len(a) + 1 : l[c] = insts[b[c]]
    BY <1>2, <1>3, <2>1 DEF Mapped
  <2> HIDE DEF l
  <2>3. r \in Seq(T) /\ Len(r) = Len(a) + 1 /\ r[Len(a) + 1] = insts[k] /\ \A c \in 1 .. Len(a) : r[c] = q[c]
    BY <1>2, <1>3, <1>4
  <2> HIDE DEF r
  <2>4. ASSUME NEW c \in 1 .. Len(a) + 1 PROVE l[c] = r[c]
    <3>1. CASE c = Len(a) + 1
      BY <2>1, <2>2, <2>3, <3>1
    <3>2. CASE c # Len(a) + 1
      <4>1. c \in 1 .. Len(a)
        BY <1>2, <3>2
      <4>2. l[c] = insts[a[c]]
        BY <2>1, <2>2, <4>1
      <4>3. r[c] = insts[a[c]]
        BY <1>4, <2>3, <4>1
      <4> QED
        BY <4>2, <4>3
    <3> QED
      BY <3>1, <3>2
  <2>5. l = r
    BY <1>2, <2>2, <2>3, <2>4
  <2> QED
    BY <2>5 DEF l, r, b
<1>6. IsSeq(q)
  BY <1>4 DEF IsSeq
<1> QED
  BY <1>5, <1>6 DEF q

\* The states of a run of the instructions of keep.
KeptRun(insts, keep, e, pages, k) == ExecuteOps(Mapped(insts, UptoOf(keep, Len(insts))[k]), e, pages)

LEMMA OnlyRuns ==
    ASSUME NEW insts, IsSeq(insts), NEW keep, NEW e, NEW pages
    PROVE  /\ KeptRun(insts, keep, e, pages, 0) = e
           /\ KeptRun(insts, keep, e, pages, Len(insts)) = ExecuteOps(Only(insts, keep), e, pages)
           /\ \A k \in 1 .. Len(insts) :
                 KeptRun(insts, keep, e, pages, k) =
                    IF k \in keep THEN ExecuteOp(insts[k], KeptRun(insts, keep, e, pages, k - 1), pages)
                    ELSE KeptRun(insts, keep, e, pages, k - 1)
<1> DEFINE n == Len(insts)
           g == UptoOf(keep, n)
           T == {k \in Nat : g[k] \in Seq(1 .. n)}
<1>1. n \in Nat
  BY DEF IsSeq
<1>2. /\ Ascending(keep, n) = g[n] /\ g[0] = <<>>
      /\ \A k \in 1 .. n : g[k] = IF k \in keep THEN Append(g[k - 1], k) ELSE g[k - 1]
  BY <1>1, UptoSteps
<1> HIDE DEF g, n
<1>3. \A k \in 0 .. n : k \in T
  <2>0. <<>> \in Seq(1 .. n) /\ \A a \in Seq(1 .. n), k \in 1 .. n : Append(a, k) \in Seq(1 .. n)
    OBVIOUS
  <2>1. 0 \in T
    <3>1. g[0] \in Seq(1 .. n)
      BY <1>2, <2>0
    <3> QED
      BY <3>1
  <2>2. ASSUME NEW k \in 1 .. n, k - 1 \in T PROVE k \in T
    <3>1. g[k - 1] \in Seq(1 .. n) /\ k \in Nat
      BY <2>2
    <3>2. g[k] \in Seq(1 .. n)
      BY <1>2, <2>0, <3>1
    <3> QED
      BY <3>1, <3>2
  <2> HIDE DEF T
  <2> QED
    BY <1>1, <2>1, <2>2, Upwards
<1>4. KeptRun(insts, keep, e, pages, 0) = e
  <2>1. Mapped(insts, <<>>) = <<>>
    BY DEF Mapped
  <2> QED
    BY <1>2, <2>1, NoOps DEF KeptRun, g, n
<1>5. KeptRun(insts, keep, e, pages, n) = ExecuteOps(Only(insts, keep), e, pages)
  <2>1. Only(insts, keep) = Mapped(insts, g[n])
    BY <1>2 DEF Only, Mapped, n
  <2> QED
    BY <2>1 DEF KeptRun, g, n
<1>6. ASSUME NEW k \in 1 .. n
      PROVE  KeptRun(insts, keep, e, pages, k) =
                IF k \in keep THEN ExecuteOp(insts[k], KeptRun(insts, keep, e, pages, k - 1), pages)
                ELSE KeptRun(insts, keep, e, pages, k - 1)
  <2> DEFINE a == g[k - 1]
             before == Mapped(insts, a)
             s == ExecuteOps(before, e, pages)
  <2>1. k - 1 \in 0 .. n
    BY <1>1
  <2>2. a \in Seq(1 .. n)
    BY <1>3, <2>1
  <2>3. KeptRun(insts, keep, e, pages, k - 1) = s
    BY DEF KeptRun, g, n
  <2>4. CASE k \in keep
    <3>1. g[k] = Append(a, k)
      BY <1>2, <2>4
    <3>2. IsSeq(before) /\ Mapped(insts, Append(a, k)) = before \o <<insts[k]>>
      BY <1>1, <2>2, MappedMore DEF n
    <3>3. KeptRun(insts, keep, e, pages, k) = ExecuteOps(before \o <<insts[k]>>, e, pages)
      BY <3>1, <3>2 DEF KeptRun, g, n
    <3> DEFINE t == <<insts[k]>>
    <3>4. IsSeq(t)
      <4>1. t \in Seq({insts[k]})
        OBVIOUS
      <4> QED
        BY <4>1 DEF IsSeq
    <3>6. ExecuteOps(t, s, pages) = ExecuteOp(insts[k], s, pages)
      BY OneOp
    <3> HIDE DEF before, t
    <3>5. ExecuteOps(before \o t, e, pages) = ExecuteOps(t, ExecuteOps(before, e, pages), pages)
      BY <3>2, <3>4, OpsJoined
    <3> QED
      BY <2>3, <2>4, <3>3, <3>5, <3>6 DEF t
  <2>5. CASE k \notin keep
    <3>1. g[k] = a
      BY <1>2, <2>5
    <3>2. KeptRun(insts, keep, e, pages, k) = s
      BY <3>1 DEF KeptRun, g, n
    <3> QED
      BY <2>3, <2>5, <3>2
  <2> QED
    BY <2>4, <2>5
<1> QED
  BY <1>4, <1>5, <1>6 DEF n

\* Dead-flag elimination changes nothing that a block's end can see.
LEMMA DeadFlagsUnseen ==
    ASSUME NEW insts, IsSeq(insts), \A j \in DOMAIN insts : IsSetFlags(insts[j]) => insts[j].result = NoValue,
           NEW e, StateOk(e), NEW pages
    PROVE  Same(ExecuteOps(WithoutDeadFlags(insts), e, pages), ExecuteOps(insts, e, pages))
<1> DEFINE n == Len(insts)
           keep == {i \in DOMAIN insts : IsSetFlags(insts[i]) => \A j \in i + 1 .. Len(insts) : ~IsSetFlags(insts[j])}
           x(k) == KeptRun(insts, keep, e, pages, k)
           y(k) == RunOf(insts, e, pages)[k]
           Quiet(k) == \A j \in k + 1 .. n : ~IsSetFlags(insts[j])
           T == {k \in Nat : Near(x(k), y(k)) /\ (Quiet(k) => Same(x(k), y(k)))}
<1>1. n \in Nat /\ DOMAIN insts = 1 .. n
  BY DEF IsSeq
<1>2. /\ y(0) = e /\ ExecuteOps(insts, e, pages) = y(n)
      /\ \A k \in 1 .. n : y(k) = ExecuteOp(insts[k], y(k - 1), pages)
  BY <1>1, RunSteps
<1>3. WithoutDeadFlags(insts) = Only(insts, keep)
  BY DEF WithoutDeadFlags
<1>4. \A k \in 1 .. n : k \in keep <=> (IsSetFlags(insts[k]) => Quiet(k))
  BY <1>1
<1> HIDE DEF keep
<1>5. /\ x(0) = e /\ x(n) = ExecuteOps(Only(insts, keep), e, pages)
      /\ \A k \in 1 .. n : x(k) = IF k \in keep THEN ExecuteOp(insts[k], x(k - 1), pages) ELSE x(k - 1)
  BY OnlyRuns
<1> HIDE DEF n, x, y
<1>6. 0 \in T
  <2>1. Near(e, e) /\ Same(e, e)
    BY DEF Near, Same, StateOk
  <2> QED
    BY <1>2, <1>5, <2>1
<1>7. ASSUME NEW k \in 1 .. n, k - 1 \in T PROVE k \in T
  <2> DEFINE a == x(k - 1)
             b == y(k - 1)
             inst == insts[k]
  <2>1. Near(a, b) /\ (Quiet(k - 1) => Same(a, b)) /\ k \in Nat
    BY <1>7
  <2>2. y(k) = ExecuteOp(inst, b, pages) /\ x(k) = IF k \in keep THEN ExecuteOp(inst, a, pages) ELSE a
    BY <1>2, <1>5
  <2>3. IsSetFlags(inst) => inst.result = NoValue
    BY <1>1
  <2>4. ~IsSetFlags(inst) /\ Quiet(k) => Quiet(k - 1)
    <3> SUFFICES ASSUME ~IsSetFlags(inst), Quiet(k), NEW j \in k - 1 + 1 .. n PROVE ~IsSetFlags(insts[j])
      OBVIOUS
    <3>1. j = k \/ j \in k + 1 .. n
      BY <1>1
    <3> QED
      BY <3>1
  <2>5. k \in keep <=> (IsSetFlags(inst) => Quiet(k))
    BY <1>4
  <2> HIDE DEF Quiet, a, b, inst
  <2>6. /\ Near(ExecuteOp(inst, a, pages), ExecuteOp(inst, b, pages))
        /\ Same(a, b) => Same(ExecuteOp(inst, a, pages), ExecuteOp(inst, b, pages))
        /\ IsSetFlags(inst) /\ inst.result = NoValue =>
              Same(ExecuteOp(inst, a, pages), ExecuteOp(inst, b, pages)) /\ Near(a, ExecuteOp(inst, b, pages))
    BY <2>1, OpNear
  <2>7. Near(x(k), y(k)) /\ (Quiet(k) => Same(x(k), y(k)))
    <3>1. CASE k \in keep
      BY <2>1, <2>2, <2>3, <2>4, <2>6, <3>1
    <3>2. CASE k \notin keep
      BY <2>1, <2>2, <2>3, <2>5, <2>6, <3>2
    <3> QED
      BY <3>1, <3>2
  <2> QED
    BY <2>1, <2>7
<1>8. n \in T
  <2> HIDE DEF T
  <2> QED
    BY <1>1, <1>6, <1>7, Upwards
<1>9. Quiet(n)
  BY <1>1
<1> QED
  BY <1>2, <1>3, <1>5, <1>8, <1>9

-----------------------------------------------------------------------------
(* What lifting yields: numbered results, and no result of a SetFlags.     *)

\* A lifted op: it defines a numbered value or none, and SetFlags defines none.
InstFine(inst) == inst.result \in Nat \cup {NoValue} /\ (IsSetFlags(inst) => inst.result = NoValue)
Fine(a) == \E T : a \in Seq(T) /\ \A t \in T : InstFine(t)

LEMMA FineOnes ==
    ASSUME NEW op
    PROVE  InstFine(Effect(op)) /\ \A v \in Nat : op.k # "SetFlags" => InstFine(Def(v, op))
BY DEF InstFine, Effect, Def, IsSetFlags, NoValue

LEMMA FineJoined ==
    ASSUME NEW a, Fine(a), NEW b, Fine(b)
    PROVE  Fine(a \o b)
<1>1. PICK S : a \in Seq(S) /\ \A t \in S : InstFine(t)
  BY DEF Fine
<1>2. PICK T : b \in Seq(T) /\ \A t \in T : InstFine(t)
  BY DEF Fine
<1> DEFINE U == S \cup T
<1>3. a \o b \in Seq(U)
  <2>1. a \in Seq(U) /\ b \in Seq(U)
    BY <1>1, <1>2
  <2> HIDE DEF U
  <2> QED
    BY <2>1
<1>4. \A t \in U : InstFine(t)
  BY <1>1, <1>2
<1> HIDE DEF U
<1> QED
  BY <1>3, <1>4 DEF Fine

LEMMA FineIs ==
    ASSUME NEW T, NEW a, a \in Seq(T), \A t \in T : InstFine(t)
    PROVE  Fine(a)
BY DEF Fine

LEMMA FineShort ==
    ASSUME NEW o1, InstFine(o1)
    PROVE  /\ Fine(<<>>) /\ Fine(<<o1>>)
           /\ \A o2 : InstFine(o2) => Fine(<<o1, o2>>)
           /\ \A o2, o3 : InstFine(o2) /\ InstFine(o3) => Fine(<<o1, o2, o3>>)
           /\ \A o2, o3, o4 : InstFine(o2) /\ InstFine(o3) /\ InstFine(o4) => Fine(<<o1, o2, o3, o4>>)
           /\ \A o2, o3, o4, o5 : InstFine(o2) /\ InstFine(o3) /\ InstFine(o4) /\ InstFine(o5) => Fine(<<o1, o2, o3, o4, o5>>)
<1>1. Fine(<<>>)
  <2> DEFINE T == {o1}
             a == <<>>
  <2>1. a \in Seq(T)
    OBVIOUS
  <2>2. \A t \in T : InstFine(t)
    OBVIOUS
  <2> HIDE DEF T, a
  <2>3. Fine(a)
    BY <2>1, <2>2, FineIs
  <2> QED
    BY <2>3 DEF a
<1>2. Fine(<<o1>>)
  <2> DEFINE T == {o1}
             a == <<o1>>
  <2>1. a \in Seq(T)
    OBVIOUS
  <2>2. \A t \in T : InstFine(t)
    OBVIOUS
  <2> HIDE DEF T, a
  <2>3. Fine(a)
    BY <2>1, <2>2, FineIs
  <2> QED
    BY <2>3 DEF a
<1>3. ASSUME NEW o2, InstFine(o2) PROVE Fine(<<o1, o2>>)
  <2> DEFINE T == {o1, o2}
             a == <<o1, o2>>
  <2>1. a \in Seq(T)
    OBVIOUS
  <2>2. \A t \in T : InstFine(t)
    BY <1>3
  <2> HIDE DEF T, a
  <2>3. Fine(a)
    BY <2>1, <2>2, FineIs
  <2> QED
    BY <2>3 DEF a
<1>4. ASSUME NEW o2, InstFine(o2), NEW o3, InstFine(o3) PROVE Fine(<<o1, o2, o3>>)
  <2> DEFINE T == {o1, o2, o3}
             a == <<o1, o2, o3>>
  <2>1. a \in Seq(T)
    OBVIOUS
  <2>2. \A t \in T : InstFine(t)
    BY <1>4
  <2> HIDE DEF T, a
  <2>3. Fine(a)
    BY <2>1, <2>2, FineIs
  <2> QED
    BY <2>3 DEF a
<1>5. ASSUME NEW o2, InstFine(o2), NEW o3, InstFine(o3), NEW o4, InstFine(o4) PROVE Fine(<<o1, o2, o3, o4>>)
  <2> DEFINE T == {o1, o2, o3, o4}
             a == <<o1, o2, o3, o4>>
  <2>1. a \in Seq(T)
    OBVIOUS
  <2>2. \A t \in T : InstFine(t)
    BY <1>5
  <2> HIDE DEF T, a
  <2>3. Fine(a)
    BY <2>1, <2>2, FineIs
  <2> QED
    BY <2>3 DEF a
<1>6. ASSUME NEW o2, InstFine(o2), NEW o3, InstFine(o3), NEW o4, InstFine(o4), NEW o5, InstFine(o5)
      PROVE Fine(<<o1, o2, o3, o4, o5>>)
  <2> DEFINE T == {o1, o2, o3, o4, o5}
             a == <<o1, o2, o3, o4, o5>>
  <2>1. a \in Seq(T)
    OBVIOUS
  <2>2. \A t \in T : InstFine(t)
    BY <1>6
  <2> HIDE DEF T, a
  <2>3. Fine(a)
    BY <2>1, <2>2, FineIs
  <2> QED
    BY <2>3 DEF a
<1> QED
  BY <1>1, <1>2, <1>3, <1>4, <1>5, <1>6

LEMMA FineAddress ==
    ASSUME NEW i, NEW n \in Nat
    PROVE  Fine(LiftAddress(i, n)) /\ n + Len(LiftAddress(i, n)) - 1 \in Nat /\ Len(LiftAddress(i, n)) \in Nat
<1> DEFINE o1 == Def(n, GetReg(SpReg(i.rn)))
           o2 == Def(n + 1, ConstOp(i.offset))
           o3 == Def(n + 2, BinaryI64("Add", n, n + 1))
<1>1. InstFine(o1) /\ InstFine(o2) /\ InstFine(o3)
  <2>1. n + 1 \in Nat /\ n + 2 \in Nat
    OBVIOUS
  <2>2. GetReg(SpReg(i.rn)).k # "SetFlags" /\ ConstOp(i.offset).k # "SetFlags" /\ BinaryI64("Add", n, n + 1).k # "SetFlags"
    BY DEF GetReg, ConstOp, BinaryI64
  <2> QED
    BY <2>1, <2>2, FineOnes
<1>2. LiftAddress(i, n) = IF i.k \in {"Load", "Store"} THEN <<o1, o2, o3>> ELSE <<o1>>
  BY DEF LiftAddress
<1> HIDE DEF o1, o2, o3
<1>3. Fine(<<o1, o2, o3>>) /\ Fine(<<o1>>)
  BY <1>1, FineShort
<1>4. Fine(LiftAddress(i, n))
  BY <1>2, <1>3
<1>5. Len(<<o1, o2, o3>>) = 3 /\ Len(<<o1>>) = 1
  OBVIOUS
<1>6. Len(LiftAddress(i, n)) \in {1, 3}
  BY <1>2, <1>5
<1>7. n + Len(LiftAddress(i, n)) - 1 \in Nat /\ Len(LiftAddress(i, n)) \in Nat
  BY <1>6
<1> QED
  BY <1>4, <1>7

LEMMA FineLoad ==
    ASSUME NEW i, i.k \in Loads, NEW n \in Nat
    PROVE  Fine(LiftLoad(i, n))
<1> DEFINE head == LiftAddress(i, n)
           a == n + Len(head) - 1
           x == a + 1
           y == a + 2
           p1 == LoadFrom(i.k, TypeOf(i.size), a)
           p2 == LowHalf("ZeroExtend", x)
           o1 == Def(x, p1)
           o2 == Def(y, p2)
           o3 == Effect(SetReg(i.rt, y))
           o4 == Effect(SetReg(i.rt, x))
<1>1. LiftLoad(i, n) = head \o IF i.size = "Word" THEN <<o1, o2, o3>> ELSE <<o1, o4>>
  BY DEF LiftLoad
<1>2. Fine(head) /\ a \in Nat
  BY FineAddress
<1> HIDE DEF head, a
<1>3. x \in Nat /\ y \in Nat
  BY <1>2
<1>4. p1.k # "SetFlags" /\ p2.k # "SetFlags"
  BY DEF LoadFrom, LowHalf, Loads
<1> HIDE DEF x, y, p1, p2
<1>5. InstFine(o1) /\ InstFine(o2) /\ InstFine(o3) /\ InstFine(o4)
  BY <1>3, <1>4, FineOnes
<1> HIDE DEF o1, o2, o3, o4
<1>6. Fine(<<o1, o2, o3>>) /\ Fine(<<o1, o4>>)
  BY <1>5, FineShort
<1>7. CASE i.size = "Word"
  BY <1>1, <1>2, <1>6, <1>7, FineJoined
<1>8. CASE i.size # "Word"
  BY <1>1, <1>2, <1>6, <1>8, FineJoined
<1> QED
  BY <1>7, <1>8

LEMMA FineStore ==
    ASSUME NEW i, i.k \in {"Store", "StoreExclusive", "StoreRelease"}, NEW n \in Nat
    PROVE  Fine(LiftStore(i, n))
<1> DEFINE head == LiftAddress(i, n)
           a == n + Len(head) - 1
           x == a + 1
           y == a + 2
           o1 == Def(x, GetReg(i.rt))
           o2 == Def(y, LowHalf("Trunc", x))
           data == IF i.size = "Word" THEN <<o1, o2>> ELSE <<o1>>
           v == a + Len(data)
           w == v + 1
           z == v + 2
           store == StoreAt(i.k, TypeOf(i.size), a, v)
           o3 == Def(w, store)
           o4 == Def(z, LowHalf("ZeroExtend", w))
           o5 == Effect(SetReg(i.rs, z))
           o6 == Effect(store)
           tail == IF i.k = "StoreExclusive" THEN <<o3, o4, o5>> ELSE <<o6>>
<1>1. LiftStore(i, n) = head \o data \o tail
  BY DEF LiftStore
<1>2. Fine(head) /\ a \in Nat
  BY FineAddress
<1> HIDE DEF head, a
<1>3. x \in Nat /\ y \in Nat
  BY <1>2
<1>4. GetReg(i.rt).k # "SetFlags" /\ LowHalf("Trunc", x).k # "SetFlags"
  BY DEF GetReg, LowHalf
<1>5. InstFine(o1) /\ InstFine(o2)
  <2> HIDE DEF x, y
  <2> QED
    BY <1>3, <1>4, FineOnes
<1>6. Fine(data) /\ v \in Nat
  <2> HIDE DEF o1, o2
  <2>1. Fine(<<o1, o2>>) /\ Fine(<<o1>>)
    BY <1>5, FineShort
  <2>2. Len(data) \in {1, 2}
    OBVIOUS
  <2> HIDE DEF data
  <2>3. v \in Nat
    BY <1>2, <2>2
  <2>4. Fine(data)
    BY <2>1 DEF data
  <2> QED
    BY <2>3, <2>4
<1> HIDE DEF data, v
<1>7. w \in Nat /\ z \in Nat
  BY <1>6
<1>8. store.k # "SetFlags" /\ LowHalf("ZeroExtend", w).k # "SetFlags"
  BY DEF StoreAt, LowHalf
<1> HIDE DEF w, z, store
<1>9. InstFine(o3) /\ InstFine(o4) /\ InstFine(o5) /\ InstFine(o6)
  BY <1>7, <1>8, FineOnes
<1> HIDE DEF o3, o4, o5, o6
<1>10. Fine(tail)
  <2>1. Fine(<<o3, o4, o5>>) /\ Fine(<<o6>>)
    BY <1>9, FineShort
  <2> QED
    BY <2>1
<1> HIDE DEF tail
<1>11. Fine(head \o data)
  BY <1>2, <1>6, FineJoined
<1> QED
  BY <1>1, <1>10, <1>11, FineJoined

LEMMA FineLift ==
    ASSUME NEW i, NEW n \in Nat
    PROVE  Fine(LiftData(i, n))
<1> DEFINE x == n + 1
           y == n + 2
           r1 == Def(n, ConstOp(i.imm))
           r2 == Effect(SetReg(i.rd, n))
           g1 == Def(n, GetReg(SpReg(i.rn)))
           c2 == Def(x, ConstOp(i.imm))
           b3 == Def(y, BinaryI64(AddSub[i.k], n, x))
           s4 == Effect(SetReg(SpReg(i.rd), y))
           f3 == Effect(SetFlags(AddSub[i.k], n, x))
           s5 == Effect(SetReg(i.rd, y))
           l1 == Def(n, GetReg(i.rn))
           l2 == Def(x, GetReg(i.rm))
           l3 == Def(y, BinaryI64(i.op, n, x))
           e1 == Effect(i)
<1>1. x \in Nat /\ y \in Nat
  OBVIOUS
<1>2. /\ i.k = "MovZ" => LiftData(i, n) = <<r1, r2>>
      /\ i.k \in {"AddImmediate", "SubImmediate"} => LiftData(i, n) = <<g1, c2, b3, s4>>
      /\ i.k \in {"AddsImmediate", "SubsImmediate"} => LiftData(i, n) = <<g1, c2, f3, b3, s5>>
      /\ i.k = "LogicalReg" => LiftData(i, n) = <<l1, l2, l3, s5>>
      /\ i.k \in Jumps \cup {"Svc"} => LiftData(i, n) = <<>>
      /\ i.k \notin {"MovZ", "AddImmediate", "SubImmediate", "AddsImmediate", "SubsImmediate", "LogicalReg", "Store",
                     "StoreExclusive", "StoreRelease", "Svc"} \cup Loads \cup Jumps => LiftData(i, n) = <<e1>>
  BY DEF LiftData, LiftAddSub, LiftFlagSetting, Loads, Jumps
<1>3. /\ ConstOp(i.imm).k # "SetFlags" /\ GetReg(SpReg(i.rn)).k # "SetFlags" /\ GetReg(i.rn).k # "SetFlags"
      /\ GetReg(i.rm).k # "SetFlags" /\ BinaryI64(AddSub[i.k], n, x).k # "SetFlags" /\ BinaryI64(i.op, n, x).k # "SetFlags"
  BY DEF ConstOp, GetReg, BinaryI64
<1> HIDE DEF x, y
<1>4. /\ InstFine(r1) /\ InstFine(r2) /\ InstFine(g1) /\ InstFine(c2) /\ InstFine(b3) /\ InstFine(s4) /\ InstFine(f3)
      /\ InstFine(s5) /\ InstFine(l1) /\ InstFine(l2) /\ InstFine(l3) /\ InstFine(e1)
  BY <1>1, <1>3, FineOnes
<1> HIDE DEF r1, r2, g1, c2, b3, s4, f3, s5, l1, l2, l3, e1
<1>5. /\ Fine(<<r1, r2>>) /\ Fine(<<g1, c2, b3, s4>>) /\ Fine(<<g1, c2, f3, b3, s5>>) /\ Fine(<<l1, l2, l3, s5>>)
      /\ Fine(<<e1>>)
  BY <1>4, FineShort
<1>6. Fine(<<>>)
  BY <1>4, FineShort
<1>7. i.k \in Loads => LiftData(i, n) = LiftLoad(i, n)
  BY DEF LiftData, Loads, Jumps
<1>8. i.k \in {"Store", "StoreExclusive", "StoreRelease"} => LiftData(i, n) = LiftStore(i, n)
  BY DEF LiftData, Loads, Jumps
<1> QED
  BY <1>2, <1>5, <1>6, <1>7, <1>8, FineLoad, FineStore

LEMMA FineParts ==
    ASSUME NEW a
    PROVE  /\ Fine(a) => IsSeq(a) /\ \A j \in DOMAIN a : InstFine(a[j])
           /\ IsSeq(a) /\ (\A j \in DOMAIN a : InstFine(a[j])) => Fine(a)
<1>1. ASSUME Fine(a) PROVE IsSeq(a) /\ \A j \in DOMAIN a : InstFine(a[j])
  <2>1. PICK T : a \in Seq(T) /\ \A t \in T : InstFine(t)
    BY <1>1 DEF Fine
  <2>2. ASSUME NEW j \in DOMAIN a PROVE InstFine(a[j])
    BY <2>1
  <2> QED
    BY <2>1, <2>2 DEF IsSeq
<1>2. ASSUME IsSeq(a), \A j \in DOMAIN a : InstFine(a[j]) PROVE Fine(a)
  <2>1. PICK S : a \in Seq(S)
    BY <1>2 DEF IsSeq
  <2> DEFINE T == {a[j] : j \in DOMAIN a}
  <2>2. a \in Seq(T)
    BY <2>1
  <2>3. \A t \in T : InstFine(t)
    BY <1>2
  <2> HIDE DEF T
  <2> QED
    BY <2>2, <2>3 DEF Fine
<1> QED
  BY <1>1, <1>2

LEMMA FinePlaced ==
    ASSUME NEW data, Fine(data), NEW at
    PROVE  Fine(Placed(data, at))
<1> DEFINE q == Placed(data, at)
<1>1. IsSeq(data) /\ \A j \in DOMAIN data : InstFine(data[j])
  BY FineParts
<1>2. IsSeq(q) /\ Len(q) = Len(data) /\ \A j \in DOMAIN data : q[j].op = data[j].op /\ q[j].result = data[j].result
  BY <1>1, PlacedOps
<1> HIDE DEF q
<1>3. ASSUME NEW j \in DOMAIN q PROVE InstFine(q[j])
  <2>1. j \in DOMAIN data
    BY <1>1, <1>2 DEF IsSeq
  <2>2. InstFine(data[j])
    BY <1>1, <2>1
  <2> QED
    BY <1>2, <2>1, <2>2 DEF InstFine, IsSetFlags
<1>4. Fine(q)
  BY <1>2, <1>3, FineParts
<1> QED
  BY <1>4 DEF q

\* The first k sequences of seqs, one after another.
Joined(seqs, k) == FlattenOf(seqs)[k]

LEMMA FrontRuns ==
    ASSUME NEW seqs, NEW n \in Nat \ {0}, Len(seqs) = n, \A k \in 1 .. n : Fine(seqs[k])
    PROVE  /\ FlattenSeq(seqs) = Joined(seqs, n)
           /\ \A k \in 1 .. n : Fine(Joined(seqs, k))
           /\ \A e, pages : ExecuteOps(Joined(seqs, 1), e, pages) = ExecuteOps(seqs[1], e, pages)
           /\ \A k \in 2 .. n : \A e, pages :
                 ExecuteOps(Joined(seqs, k), e, pages) = ExecuteOps(seqs[k], ExecuteOps(Joined(seqs, k - 1), e, pages), pages)
           /\ \A k \in 1 .. n : \A j \in DOMAIN seqs[k] : \E q \in DOMAIN Joined(seqs, n) : Joined(seqs, n)[q] = seqs[k][j]
<1> DEFINE F(k) == Joined(seqs, k)
<1>1. FlattenSeq(seqs) = F(n) /\ F(1) = seqs[1] /\ \A k \in 2 .. n : F(k) = F(k - 1) \o seqs[k]
  BY Flattens DEF Joined
<1> HIDE DEF F
<1> DEFINE Holds1(k) == \A l \in 1 .. k : \A j \in DOMAIN seqs[l] : \E q \in DOMAIN F(k) : F(k)[q] = seqs[l][j]
           T == {k \in Nat : k = 0 \/ (Fine(F(k)) /\ Holds1(k))}
<1>2. 0 \in T
  OBVIOUS
<1>3. ASSUME NEW k \in 1 .. n, k - 1 \in T PROVE k \in T
  <2>1. CASE k = 1
    <3>1. Fine(F(1)) /\ Holds1(1)
      BY <1>1
    <3> QED
      BY <2>1, <3>1
  <2>2. CASE k # 1
    <3> DEFINE a == F(k - 1)
               b == seqs[k]
    <3>1. k \in 2 .. n /\ k - 1 # 0 /\ k \in Nat
      BY <2>2
    <3>2. Fine(a) /\ Holds1(k - 1) /\ Fine(b) /\ F(k) = a \o b
      BY <1>1, <1>3, <3>1
    <3> HIDE DEF a, b
    <3>3. Fine(F(k))
      BY <3>2, FineJoined
    <3>4. /\ \A q \in DOMAIN a : q \in DOMAIN F(k) /\ F(k)[q] = a[q]
          /\ \A j \in DOMAIN b : Len(a) + j \in DOMAIN F(k) /\ F(k)[Len(a) + j] = b[j]
      <4>1. PICK S1, S2 : a \in Seq(S1) /\ b \in Seq(S2)
        BY <3>2 DEF Fine
      <4> DEFINE U == S1 \cup S2
      <4>2. a \in Seq(U) /\ b \in Seq(U)
        BY <4>1
      <4> HIDE DEF U
      <4> QED
        BY <3>2, <4>2
    <3>5. ASSUME NEW l \in 1 .. k, NEW j \in DOMAIN seqs[l] PROVE \E q \in DOMAIN F(k) : F(k)[q] = seqs[l][j]
      <4>1. CASE l = k
        BY <3>4, <4>1 DEF b
      <4>2. CASE l # k
        <5>1. l \in 1 .. k - 1
          BY <3>1, <4>2
        <5>2. PICK q \in DOMAIN a : a[q] = seqs[l][j]
          BY <3>2, <5>1 DEF a
        <5> QED
          BY <3>4, <5>2
      <4> QED
        BY <4>1, <4>2
    <3> QED
      BY <3>1, <3>3, <3>5
  <2> QED
    BY <2>1, <2>2
<1>4. \A k \in 0 .. n : k \in T
  <2> HIDE DEF T
  <2> QED
    BY <1>2, <1>3, Upwards
<1>5. \A k \in 1 .. n : Fine(F(k)) /\ Holds1(k)
  <2> SUFFICES ASSUME NEW k \in 1 .. n PROVE Fine(F(k)) /\ Holds1(k)
    OBVIOUS
  <2>1. k \in T /\ k # 0
    BY <1>4
  <2> QED
    BY <2>1
<1>6. ASSUME NEW k \in 2 .. n, NEW e, NEW pages
      PROVE  ExecuteOps(F(k), e, pages) = ExecuteOps(seqs[k], ExecuteOps(F(k - 1), e, pages), pages)
  <2> DEFINE a == F(k - 1)
             b == seqs[k]
  <2>1. k - 1 \in 1 .. n /\ k \in 1 .. n
    OBVIOUS
  <2>2. Fine(a) /\ Fine(b) /\ F(k) = a \o b
    BY <1>1, <1>5, <2>1
  <2>3. IsSeq(a) /\ IsSeq(b)
    BY <2>2, FineParts
  <2> HIDE DEF a, b
  <2>4. ExecuteOps(a \o b, e, pages) = ExecuteOps(b, ExecuteOps(a, e, pages), pages)
    BY <2>3, OpsJoined
  <2> QED
    BY <2>2, <2>4 DEF a, b
<1>7. n \in 1 .. n
  OBVIOUS
<1> QED
  BY <1>1, <1>5, <1>6, <1>7 DEF F

-----------------------------------------------------------------------------
(* The parts of a lifted program: its blocks, their code and terminators.  *)

\* The parts of a lifted program.
PcOf(base, i) == base + 4 * (i - 1)
StartsOf(prog, base) == Ascending(BlockStarts(prog, base), Len(prog))
EndAt(prog, base, b) ==
    IF b = Len(StartsOf(prog, base)) THEN Len(prog) ELSE StartsOf(prog, base)[b + 1] - 1
BlockOfStart(prog, base, i) == (CHOOSE b \in DOMAIN StartsOf(prog, base) : StartsOf(prog, base)[b] = i) - 1
LiftedAt(prog, base, i) == Placed(LiftData(prog[i], ValuesBefore(prog)[i]), PcOf(base, i))
CodeOf(prog, base, b) ==
    [j \in 1 .. EndAt(prog, base, b) - StartsOf(prog, base)[b] + 1 |-> LiftedAt(prog, base, StartsOf(prog, base)[b] + j - 1)]
TargetOf(prog, base, i) == BlockOfStart(prog, base, IndexOf(prog, base, prog[i].target))
TermOf(prog, base, b) ==
    CASE prog[EndAt(prog, base, b)].k = "Branch" -> [k |-> "Branch", target |-> TargetOf(prog, base, EndAt(prog, base, b))]
      [] prog[EndAt(prog, base, b)].k = "CondBranch" ->
            [k |-> "CondBranch", cond |-> prog[EndAt(prog, base, b)].cond,
             iftrue |-> TargetOf(prog, base, EndAt(prog, base, b)),
             iffalse |-> BlockOfStart(prog, base, EndAt(prog, base, b) + 1)]
      [] prog[EndAt(prog, base, b)].k = "Svc" -> [k |-> "Halt"]
      [] OTHER -> IF b < Len(StartsOf(prog, base)) THEN [k |-> "Branch", target |-> b] ELSE [k |-> "Return"]
BlockAt(prog, base, b) ==
    [insts |-> FlattenSeq(CodeOf(prog, base, b)), term |-> TermOf(prog, base, b), at |-> PcOf(base, EndAt(prog, base, b))]
FunctionOf(prog, base) ==
    [entry |-> base, values |-> ValuesBefore(prog)[Len(prog) + 1], deopts |-> <<>>,
     blocks |-> IF prog = <<>> THEN <<[insts |-> <<>>, term |-> [k |-> "Return"], at |-> base]>>
                ELSE [b \in DOMAIN StartsOf(prog, base) |-> BlockAt(prog, base, b)]]
Unresolved(prog, base, i) ==
    ~(/\ IndexOf(prog, base, prog[i].target) # 0
      /\ prog[i].k = "CondBranch" => i + 1 \in DOMAIN prog)

LEMMA LiftParts ==
    ASSUME NEW prog, NEW base
    PROVE  LiftProgram(prog, base) =
              IF \E i \in DOMAIN prog : prog[i].k \in Jumps /\ Unresolved(prog, base, i)
              THEN [ok |-> FALSE]
              ELSE IF Verify(FunctionOf(prog, base)) THEN [ok |-> TRUE, f |-> FunctionOf(prog, base)] ELSE [ok |-> FALSE]
BY Zenon DEF LiftProgram, FunctionOf, Unresolved, BlockAt, TermOf, TargetOf, CodeOf, LiftedAt, BlockOfStart, EndAt, StartsOf, PcOf

EndsBlock(i) == i.k \in Jumps \cup {"Svc"}

LEMMA StartsAre ==
    ASSUME NEW prog, NEW n \in Nat \ {0}, n = Len(prog), DOMAIN prog = 1 .. n, NEW base
    PROVE  /\ 1 \in BlockStarts(prog, base)
           /\ \A i \in 1 .. n - 1 : EndsBlock(prog[i]) => i + 1 \in BlockStarts(prog, base)
           /\ \A i \in 1 .. n : prog[i].k \in Jumps /\ IndexOf(prog, base, prog[i].target) \in 1 .. n =>
                 IndexOf(prog, base, prog[i].target) \in BlockStarts(prog, base)
           /\ BlockStarts(prog, base) \subseteq 1 .. n
<1> DEFINE ends == {i \in DOMAIN prog : prog[i].k \in Jumps \cup {"Svc"}}
           targets == {IndexOf(prog, base, prog[i].target) : i \in {j \in ends : prog[j].k \in Jumps}}
           S == ({1} \cup targets \cup {i + 1 : i \in ends}) \cap DOMAIN prog
<1>1. BlockStarts(prog, base) = S
  BY DEF BlockStarts
<1>2. 1 \in S
  OBVIOUS
<1>3. ASSUME NEW i \in 1 .. n - 1, EndsBlock(prog[i]) PROVE i + 1 \in S
  <2>1. i \in ends /\ i + 1 \in DOMAIN prog
    BY <1>3 DEF EndsBlock
  <2> QED
    BY <2>1
<1>4. ASSUME NEW i \in 1 .. n, prog[i].k \in Jumps, IndexOf(prog, base, prog[i].target) \in 1 .. n
      PROVE IndexOf(prog, base, prog[i].target) \in S
  <2>1. i \in {j \in ends : prog[j].k \in Jumps}
    BY <1>4
  <2>2. IndexOf(prog, base, prog[i].target) \in targets
    BY <2>1
  <2> HIDE DEF targets
  <2> QED
    BY <2>2, <1>4
<1>5. S \subseteq 1 .. n
  OBVIOUS
<1> HIDE DEF S
<1> QED
  BY <1>1, <1>2, <1>3, <1>4, <1>5

\* The instructions of block b, and that it begins where an earlier one ends.
BlockShape(prog, base, n, b) ==
    /\ StartsOf(prog, base)[b] \in 1 .. n /\ EndAt(prog, base, b) \in StartsOf(prog, base)[b] .. n
    /\ \A i \in StartsOf(prog, base)[b] .. EndAt(prog, base, b) - 1 : ~EndsBlock(prog[i])
    /\ b = Len(StartsOf(prog, base)) => EndAt(prog, base, b) = n
    /\ b < Len(StartsOf(prog, base)) => StartsOf(prog, base)[b + 1] = EndAt(prog, base, b) + 1
BlockFound(prog, base, i) ==
    \E c \in DOMAIN StartsOf(prog, base) : StartsOf(prog, base)[c] = i /\ BlockOfStart(prog, base, i) = c - 1

LEMMA BlocksShaped ==
    ASSUME NEW prog, NEW n \in Nat \ {0}, n = Len(prog), DOMAIN prog = 1 .. n, NEW base
    PROVE  /\ Len(StartsOf(prog, base)) \in Nat \ {0}
           /\ DOMAIN StartsOf(prog, base) = 1 .. Len(StartsOf(prog, base))
           /\ StartsOf(prog, base)[1] = 1
           /\ \A b \in DOMAIN StartsOf(prog, base) : BlockShape(prog, base, n, b)
           /\ \A i \in BlockStarts(prog, base) : BlockFound(prog, base, i)
<1> DEFINE s == StartsOf(prog, base)
           S == BlockStarts(prog, base)
           len == Len(s)
<1>1. /\ 1 \in S /\ S \subseteq 1 .. n
      /\ \A i \in 1 .. n - 1 : EndsBlock(prog[i]) => i + 1 \in S
  BY StartsAre
<1> HIDE DEF S
<1>2. Ordered(s, S, n)
  BY AscendingIs DEF StartsOf, S
<1>3. EndAt(prog, base, 1) = EndAt(prog, base, 1) /\ \A b : EndAt(prog, base, b) = IF b = len THEN n ELSE s[b + 1] - 1
  BY DEF EndAt
<1>4. \A i \in S : (\E c \in DOMAIN s : s[c] = i) =>
         \E c \in DOMAIN s : s[c] = i /\ BlockOfStart(prog, base, i) = c - 1
  <2> SUFFICES ASSUME NEW i \in S, \E c \in DOMAIN s : s[c] = i
               PROVE  \E c \in DOMAIN s : s[c] = i /\ BlockOfStart(prog, base, i) = c - 1
    OBVIOUS
  <2> DEFINE c == CHOOSE b \in DOMAIN s : s[b] = i
  <2>1. c \in DOMAIN s /\ s[c] = i
    OBVIOUS
  <2>2. BlockOfStart(prog, base, i) = c - 1
    BY DEF BlockOfStart
  <2> QED
    BY <2>1, <2>2
<1>5. \A i \in S : BlockFound(prog, base, i) <=> \E c \in DOMAIN s : s[c] = i /\ BlockOfStart(prog, base, i) = c - 1
  BY DEF BlockFound
<1>6. \A b : BlockShape(prog, base, n, b) <=>
         /\ s[b] \in 1 .. n /\ EndAt(prog, base, b) \in s[b] .. n
         /\ \A i \in s[b] .. EndAt(prog, base, b) - 1 : ~EndsBlock(prog[i])
         /\ b = len => EndAt(prog, base, b) = n
         /\ b < len => s[b + 1] = EndAt(prog, base, b) + 1
  BY DEF BlockShape
<1> HIDE DEF s
<1>7. DOMAIN s = 1 .. len /\ len \in Nat /\ s \in Seq(1 .. n) /\ \A c \in 1 .. len : s[c] \in 1 .. n
  BY <1>2 DEF Ordered
<1> HIDE DEF len
<1>8. PICK c1 \in 1 .. len : s[c1] = 1
  BY <1>1, <1>2, <1>7 DEF Ordered
<1>9. s[1] = 1 /\ len # 0
  <2>1. 1 \in 1 .. len /\ len # 0
    BY <1>7, <1>8
  <2>2. CASE c1 = 1
    BY <1>8, <2>1, <2>2
  <2>3. CASE c1 # 1
    <3>1. 1 < c1
      BY <1>7, <1>8, <2>3
    <3>2. s[1] < s[c1]
      BY <1>2, <1>7, <2>1, <3>1 DEF Ordered
    <3> QED
      BY <1>7, <1>8, <2>1, <3>2
  <2> QED
    BY <2>1, <2>2, <2>3
<1>10. ASSUME NEW b \in 1 .. len PROVE BlockShape(prog, base, n, b)
  <2> DEFINE e == EndAt(prog, base, b)
  <2>1. e = IF b = len THEN n ELSE s[b + 1] - 1
    BY <1>3
  <2> HIDE DEF e
  <2>2. s[b] \in 1 .. n
    BY <1>7
  <2>3. b # len => b + 1 \in 1 .. len /\ s[b] < s[b + 1] /\ s[b + 1] \in 1 .. n
    <3>1. b # len => b + 1 \in 1 .. len /\ b < b + 1
      BY <1>7
    <3> QED
      BY <1>2, <1>7, <3>1 DEF Ordered
  <2>4. e \in s[b] .. n
    BY <2>1, <2>2, <2>3
  <2>5. ASSUME NEW i \in s[b] .. e - 1, EndsBlock(prog[i]) PROVE FALSE
    <3>1. i \in 1 .. n - 1 /\ i + 1 > s[b] /\ i + 1 <= e /\ i + 1 \in 1 .. n
      BY <2>2, <2>4
    <3>2. i + 1 \in S
      BY <1>1, <2>5, <3>1
    <3>3. PICK c \in 1 .. len : s[c] = i + 1
      BY <1>2, <1>7, <3>1, <3>2 DEF Ordered
    <3>4. CASE c <= b
      <4>1. s[c] <= s[b]
        <5>1. CASE c = b
          BY <2>2, <5>1
        <5>2. CASE c # b
          <6>1. c < b
            BY <1>7, <3>4, <5>2
          <6>2. s[c] < s[b]
            BY <1>2, <1>7, <6>1 DEF Ordered
          <6> QED
            BY <1>7, <6>2
        <5> QED
          BY <5>1, <5>2
      <4> QED
        BY <2>2, <3>1, <3>3, <4>1
    <3>5. CASE ~(c <= b)
      <4>1. b # len /\ b + 1 <= c
        BY <1>7, <3>5
      <4>2. s[b + 1] <= s[c]
        <5>1. CASE c = b + 1
          BY <1>7, <5>1
        <5>2. CASE c # b + 1
          <6>1. b + 1 < c /\ b + 1 \in 1 .. len
            BY <1>7, <4>1, <5>2
          <6>2. s[b + 1] < s[c]
            BY <1>2, <1>7, <6>1 DEF Ordered
          <6> QED
            BY <1>7, <6>1, <6>2
        <5> QED
          BY <5>1, <5>2
      <4> QED
        BY <2>1, <2>3, <2>4, <3>1, <3>3, <4>1, <4>2
    <3> QED
      BY <3>4, <3>5
  <2>6. b < len => s[b + 1] = e + 1
    BY <1>7, <2>1, <2>3
  <2>7. b = len => e = n
    BY <2>1
  <2> QED
    BY <1>6, <2>2, <2>4, <2>5, <2>6, <2>7 DEF e
<1>11. ASSUME NEW i \in S PROVE BlockFound(prog, base, i)
  <2>1. \E c \in DOMAIN s : s[c] = i
    BY <1>1, <1>2 DEF Ordered
  <2> QED
    BY <1>4, <1>5, <2>1
<1> QED
  BY <1>7, <1>9, <1>10, <1>11 DEF s, S, len

LEMMA Indexed ==
    ASSUME NEW prog, NEW n \in Nat, n = Len(prog), NEW base \in Nat
    PROVE  /\ \A i \in 1 .. n : IndexOf(prog, base, PcOf(base, i)) = i
           /\ IndexOf(prog, base, PcOf(base, n + 1)) = 0
           /\ \A a \in Int : IndexOf(prog, base, a) # 0 =>
                 IndexOf(prog, base, a) \in 1 .. n /\ a = PcOf(base, IndexOf(prog, base, a))
<1>1. ASSUME NEW i \in 1 .. n + 1 PROVE IndexOf(prog, base, PcOf(base, i)) = IF i = n + 1 THEN 0 ELSE i
  <2> DEFINE a == PcOf(base, i)
             off == a - base
  <2>1. a = base + 4 * (i - 1)
    BY DEF PcOf
  <2>2. off = 4 * (i - 1)
    BY <2>1
  <2> HIDE DEF a, off
  <2>3. off >= 0 /\ off % 4 = 0 /\ off \div 4 = i - 1 /\ off \in Nat
    BY <2>2
  <2>4. IndexOf(prog, base, a) = IF off >= 0 /\ off % 4 = 0 /\ off \div 4 < Len(prog) THEN off \div 4 + 1 ELSE 0
    BY DEF IndexOf, off
  <2>5. IndexOf(prog, base, a) = IF i = n + 1 THEN 0 ELSE i
    BY <2>3, <2>4
  <2> QED
    BY <2>5 DEF a
<1>2. ASSUME NEW a \in Int, IndexOf(prog, base, a) # 0
      PROVE  IndexOf(prog, base, a) \in 1 .. n /\ a = PcOf(base, IndexOf(prog, base, a))
  <2> DEFINE off == a - base
  <2>1. off \in Int /\ a = base + off
    OBVIOUS
  <2>2. IndexOf(prog, base, a) = IF off >= 0 /\ off % 4 = 0 /\ off \div 4 < Len(prog) THEN off \div 4 + 1 ELSE 0
    BY DEF IndexOf
  <2> HIDE DEF off
  <2>3. off >= 0 /\ off % 4 = 0 /\ off \div 4 < n /\ IndexOf(prog, base, a) = off \div 4 + 1
    BY <1>2, <2>2
  <2>4. off \div 4 \in Nat /\ off = 4 * (off \div 4)
    BY <2>1, <2>3
  <2> DEFINE q == off \div 4
  <2> HIDE DEF q
  <2>5. q \in Nat /\ off = 4 * q /\ q < n /\ IndexOf(prog, base, a) = q + 1
    BY <2>3, <2>4 DEF q
  <2>6. PcOf(base, q + 1) = base + 4 * q
    BY <2>5 DEF PcOf
  <2> QED
    BY <2>1, <2>5, <2>6
<1>3. \A i \in 1 .. n : i \in 1 .. n + 1 /\ i # n + 1
  OBVIOUS
<1>4. n + 1 \in 1 .. n + 1
  OBVIOUS
<1> QED
  BY <1>1, <1>2, <1>3, <1>4

LEMMA DefinesNat ==
    ASSUME NEW data, IsSeq(data)
    PROVE  Defines(data) \in Nat
<1> DEFINE S == {s \in DOMAIN data : data[s].result # NoValue}
<1>1. DOMAIN data = 1 .. Len(data) /\ Len(data) \in Nat
  BY DEF IsSeq
<1>2. IsFiniteSet(DOMAIN data)
  BY <1>1, FS_Interval
<1>3. IsFiniteSet(S)
  BY <1>2, FS_Subset
<1> QED
  BY <1>3, FS_CardinalityType DEF Defines

\* The counts of ValuesBefore.
CountsIs(prog, n, g) == g = [i \in 1 .. n + 1 |-> IF i = 1 THEN 0 ELSE g[i - 1] + Defines(LiftData(prog[i - 1], 0))]

LEMMA CountsExist ==
    ASSUME NEW prog, NEW n \in Nat
    PROVE  \E g : CountsIs(prog, n, g)
<1> DEFINE w(i) == Defines(LiftData(prog[i - 1], 0))
           T == {k \in Nat : \E g : CountsIs(prog, k, g)}
<1> HIDE DEF w
<1>1. 0 \in T
  <2> DEFINE g == [i \in 1 .. 0 + 1 |-> 0]
  <2>1. g = [i \in 1 .. 0 + 1 |-> IF i = 1 THEN 0 ELSE g[i - 1] + w(i)]
    OBVIOUS
  <2>2. CountsIs(prog, 0, g)
    BY <2>1 DEF CountsIs, w
  <2> QED
    BY <2>2
<1>2. ASSUME NEW k \in 1 .. n, k - 1 \in T PROVE k \in T
  <2>1. k - 1 \in Nat /\ k \in Nat
    BY <1>2
  <2>2. PICK g : CountsIs(prog, k - 1, g)
    BY <1>2
  <2>3. g = [i \in 1 .. k - 1 + 1 |-> IF i = 1 THEN 0 ELSE g[i - 1] + w(i)]
    BY <2>2 DEF CountsIs, w
  <2> DEFINE h == [i \in 1 .. k + 1 |-> IF i = k + 1 THEN g[k] + w(i) ELSE g[i]]
  <2>4. ASSUME NEW i \in 1 .. k + 1 PROVE h[i] = IF i = 1 THEN 0 ELSE h[i - 1] + w(i)
    <3>1. CASE i = k + 1
      <4>1. k \in 1 .. k + 1 /\ k # k + 1 /\ i # 1 /\ i - 1 = k
        BY <2>1, <3>1
      <4>2. h[k] = g[k]
        BY <4>1
      <4> QED
        BY <3>1, <4>1, <4>2
    <3>2. CASE i # k + 1
      <4>1. i \in 1 .. k - 1 + 1 /\ h[i] = g[i]
        BY <2>1, <3>2
      <4>2. g[i] = IF i = 1 THEN 0 ELSE g[i - 1] + w(i)
        BY <2>3, <4>1
      <4>3. i # 1 => i - 1 \in 1 .. k + 1 /\ i - 1 # k + 1
        BY <2>1, <4>1
      <4>4. i # 1 => h[i - 1] = g[i - 1]
        BY <4>3
      <4> QED
        BY <4>1, <4>2, <4>4
    <3> QED
      BY <3>1, <3>2
  <2>5. h = [i \in 1 .. k + 1 |-> h[i]]
    OBVIOUS
  <2> HIDE DEF h
  <2>6. CountsIs(prog, k, h)
    BY <2>4, <2>5 DEF CountsIs, w
  <2> QED
    BY <2>1, <2>6
<1>3. n \in T
  <2> HIDE DEF T
  <2> QED
    BY <1>1, <1>2, Upwards
<1> QED
  BY <1>3

LEMMA CountsNat ==
    ASSUME NEW prog, NEW n \in Nat, n = Len(prog)
    PROVE  \A i \in 1 .. n + 1 : ValuesBefore(prog)[i] \in Nat
<1> DEFINE g == ValuesBefore(prog)
           w(i) == Defines(LiftData(prog[i - 1], 0))
<1>0. \E h : CountsIs(prog, n, h)
  BY CountsExist
<1>1. \E h : h = [i \in 1 .. Len(prog) + 1 |-> IF i = 1 THEN 0 ELSE h[i - 1] + Defines(LiftData(prog[i - 1], 0))]
  BY <1>0, Zenon DEF CountsIs
<1>2. g = [i \in 1 .. Len(prog) + 1 |-> IF i = 1 THEN 0 ELSE g[i - 1] + Defines(LiftData(prog[i - 1], 0))]
  BY <1>1, Zenon DEF ValuesBefore
<1>3. \A i : w(i) \in Nat
  <2> SUFFICES ASSUME NEW i PROVE w(i) \in Nat
    OBVIOUS
  <2> DEFINE data == LiftData(prog[i - 1], 0)
  <2>1. Fine(data)
    BY FineLift
  <2>2. IsSeq(data)
    BY <2>1, FineParts
  <2> HIDE DEF data
  <2>3. Defines(data) \in Nat
    BY <2>2, DefinesNat
  <2> QED
    BY <2>3 DEF data
<1>4. g = [i \in 1 .. n + 1 |-> IF i = 1 THEN 0 ELSE g[i - 1] + w(i)]
  BY <1>2
<1> HIDE DEF g, w
<1> DEFINE T == {k \in Nat : g[k + 1] \in Nat}
<1>5. 0 \in T
  <2>1. 1 \in 1 .. n + 1
    OBVIOUS
  <2>2. g[1] = 0
    BY <1>4, <2>1
  <2> QED
    BY <2>2
<1>6. ASSUME NEW k \in 1 .. n, k - 1 \in T PROVE k \in T
  <2>1. k + 1 \in 1 .. n + 1 /\ k + 1 # 1 /\ k + 1 - 1 = k /\ k - 1 + 1 = k /\ k \in Nat
    OBVIOUS
  <2>2. g[k + 1] = g[k] + w(k + 1)
    BY <1>4, <2>1
  <2>3. g[k] \in Nat
    BY <1>6, <2>1
  <2> QED
    BY <1>3, <2>1, <2>2, <2>3
<1>7. \A k \in 0 .. n : k \in T
  <2> HIDE DEF T
  <2> QED
    BY <1>5, <1>6, Upwards
<1>8. ASSUME NEW i \in 1 .. n + 1 PROVE g[i] \in Nat
  <2>1. i - 1 \in 0 .. n /\ i - 1 + 1 = i
    OBVIOUS
  <2>2. i - 1 \in T
    BY <1>7, <2>1
  <2> QED
    BY <2>1, <2>2
<1> QED
  BY <1>8 DEF g

\* How many instructions block b has.
SizeOf(prog, base, b) == EndAt(prog, base, b) - StartsOf(prog, base)[b] + 1

LEMMA CodeFine ==
    ASSUME NEW prog, NEW n \in Nat \ {0}, n = Len(prog), DOMAIN prog = 1 .. n, NEW base,
           NEW b \in DOMAIN StartsOf(prog, base)
    PROVE  /\ SizeOf(prog, base, b) \in Nat \ {0} /\ Len(CodeOf(prog, base, b)) = SizeOf(prog, base, b)
           /\ \A k \in 1 .. SizeOf(prog, base, b) :
                 /\ Fine(CodeOf(prog, base, b)[k])
                 /\ CodeOf(prog, base, b)[k] = LiftedAt(prog, base, StartsOf(prog, base)[b] + k - 1)
                 /\ StartsOf(prog, base)[b] + k - 1 \in 1 .. n
<1> DEFINE s == StartsOf(prog, base)[b]
           e == EndAt(prog, base, b)
           size == SizeOf(prog, base, b)
           parts == CodeOf(prog, base, b)
<1>1. s \in 1 .. n /\ e \in s .. n
  BY BlocksShaped DEF BlockShape
<1>2. size = e - s + 1
  BY DEF SizeOf
<1>3. parts = [j \in 1 .. e - s + 1 |-> LiftedAt(prog, base, s + j - 1)]
  BY DEF CodeOf
<1> HIDE DEF s, e, size, parts
<1>4. size \in Nat \ {0}
  BY <1>1, <1>2
<1>5. parts = [j \in 1 .. size |-> LiftedAt(prog, base, s + j - 1)]
  BY <1>2, <1>3
<1>6. Len(parts) = size
  BY <1>4, <1>5
<1>7. ASSUME NEW k \in 1 .. size
      PROVE  Fine(parts[k]) /\ parts[k] = LiftedAt(prog, base, s + k - 1) /\ s + k - 1 \in 1 .. n
  <2> DEFINE i == s + k - 1
             v == ValuesBefore(prog)[i]
  <2>1. i \in 1 .. n
    BY <1>1, <1>2
  <2>2. v \in Nat
    <3> HIDE DEF i
    <3>1. n \in Nat /\ i \in 1 .. n + 1
      BY <2>1
    <3> QED
      BY <3>1, CountsNat
  <2>3. parts[k] = Placed(LiftData(prog[i], v), PcOf(base, i))
    BY <1>5 DEF LiftedAt
  <2>5. parts[k] = LiftedAt(prog, base, i)
    BY <1>5
  <2> HIDE DEF i, v
  <2>4. Fine(Placed(LiftData(prog[i], v), PcOf(base, i)))
    BY <2>2, FineLift, FinePlaced
  <2> QED
    BY <2>1, <2>3, <2>4, <2>5 DEF i
<1> QED
  BY <1>4, <1>6, <1>7 DEF s, size, parts

LEMMA ValuesFit ==
    ASSUME NEW prog, NEW n \in Nat \ {0}, n = Len(prog), DOMAIN prog = 1 .. n, NEW base,
           Verify(FunctionOf(prog, base)), NEW b \in DOMAIN StartsOf(prog, base), NEW k \in 1 .. SizeOf(prog, base, b)
    PROVE  Fits(LiftedAt(prog, base, StartsOf(prog, base)[b] + k - 1), 0 .. FunctionOf(prog, base).values - 1)
<1> DEFINE f == FunctionOf(prog, base)
           len == Len(StartsOf(prog, base))
           seqs == [c \in DOMAIN f.blocks |-> f.blocks[c].insts]
           all == AllInsts(f)
<1>0. prog # <<>>
  OBVIOUS
<1>1. f.blocks = [c \in DOMAIN StartsOf(prog, base) |-> BlockAt(prog, base, c)]
  BY <1>0, Zenon DEF FunctionOf
<1>2. len \in Nat \ {0} /\ DOMAIN StartsOf(prog, base) = 1 .. len
  BY BlocksShaped
<1>3. f.values = ValuesBefore(prog)[n + 1]
  BY DEF FunctionOf
<1>4. f.values \in Nat
  <2>1. n + 1 \in 1 .. n + 1 /\ n \in Nat
    OBVIOUS
  <2>2. ValuesBefore(prog)[n + 1] \in Nat
    BY <2>1, CountsNat
  <2> QED
    BY <1>3, <2>2
<1>5. all = FlattenSeq(seqs)
  BY DEF AllInsts
<1>6. \A q \in DOMAIN all : InstVerifies(f, all, q)
  BY DEF Verify
<1> HIDE DEF f, all
<1>7. \A c \in 1 .. len : seqs[c] = Joined(CodeOf(prog, base, c), SizeOf(prog, base, c)) /\ Fine(seqs[c])
  <2> SUFFICES ASSUME NEW c \in 1 .. len
               PROVE  seqs[c] = Joined(CodeOf(prog, base, c), SizeOf(prog, base, c)) /\ Fine(seqs[c])
    OBVIOUS
  <2> DEFINE parts == CodeOf(prog, base, c)
             size == SizeOf(prog, base, c)
  <2>1. seqs[c] = FlattenSeq(parts)
    BY <1>1, <1>2 DEF BlockAt
  <2>2. size \in Nat \ {0} /\ Len(parts) = size /\ \A l \in 1 .. size : Fine(parts[l])
    BY <1>2, CodeFine
  <2> HIDE DEF parts, size, seqs
  <2>3. FlattenSeq(parts) = Joined(parts, size) /\ \A l \in 1 .. size : Fine(Joined(parts, l))
    BY <2>2, FrontRuns
  <2>4. size \in 1 .. size
    BY <2>2
  <2> QED
    BY <2>1, <2>3, <2>4 DEF parts, size
<1>8. Len(seqs) = len
  BY <1>1, <1>2
<1> HIDE DEF seqs, len
<1>9. all = Joined(seqs, len) /\ \A c \in 1 .. len : \A j \in DOMAIN seqs[c] : \E q \in DOMAIN all : all[q] = seqs[c][j]
  <2>1. /\ FlattenSeq(seqs) = Joined(seqs, len)
        /\ \A c \in 1 .. len : \A j \in DOMAIN seqs[c] : \E q \in DOMAIN Joined(seqs, len) : Joined(seqs, len)[q] = seqs[c][j]
    BY <1>2, <1>7, <1>8, FrontRuns
  <2> QED
    BY <1>5, <2>1
<1> DEFINE data == LiftedAt(prog, base, StartsOf(prog, base)[b] + k - 1)
           parts == CodeOf(prog, base, b)
           size == SizeOf(prog, base, b)
<1>10. size \in Nat \ {0} /\ Len(parts) = size /\ (\A l \in 1 .. size : Fine(parts[l])) /\ parts[k] = data
  BY CodeFine
<1>11. seqs[b] = Joined(parts, size) /\ b \in 1 .. len
  BY <1>2, <1>7
<1>15. k \in 1 .. size
  OBVIOUS
<1> HIDE DEF data, parts, size
<1>12. \A l \in 1 .. size : \A j \in DOMAIN parts[l] : \E q \in DOMAIN Joined(parts, size) : Joined(parts, size)[q] = parts[l][j]
  BY <1>10, FrontRuns
<1>13. ASSUME NEW j \in DOMAIN data, data[j].result # NoValue PROVE data[j].result \in 0 .. f.values - 1
  <2>1. PICK r \in DOMAIN seqs[b] : seqs[b][r] = data[j]
    BY <1>10, <1>11, <1>12, <1>15
  <2>2. PICK q \in DOMAIN all : all[q] = data[j]
    BY <1>9, <1>11, <2>1
  <2>3. InstVerifies(f, all, q)
    BY <1>6
  <2>4. data[j].result < f.values
    BY <1>13, <2>2, <2>3 DEF InstVerifies
  <2>5. Fine(data)
    BY <1>10, <1>15
  <2>6. InstFine(data[j])
    BY <2>5, FineParts
  <2>7. data[j].result \in Nat
    BY <1>13, <2>6 DEF InstFine
  <2> QED
    BY <1>4, <2>4, <2>7
<1>14. Fits(data, 0 .. f.values - 1)
  BY <1>13 DEF Fits
<1> QED
  BY <1>14 DEF data, f

-----------------------------------------------------------------------------
(* The evaluator and the interpreter side by side.                         *)

\* The evaluator, running in block b, is where the interpreter is with s.
Tracks(e, b, s, ids) ==
    /\ CpuOk(s.cpu) /\ MemOk(s.mem) /\ s.err = "none" /\ ~s.cpu.halted
    /\ \E c, p : Sees(c, p, s.cpu) /\ EndsIn(e, b, FALSE, "running", c, s.mem, p, ids)
FaultsWith(e, b, m, ids) == \E c, p : EndsIn(e, b, FALSE, "fault", c, m, p, ids)

LEMMA OpsAfterFault ==
    ASSUME NEW insts, IsSeq(insts), NEW e, e.status # "running", NEW pages
    PROVE  ExecuteOps(insts, e, pages) = e
<1> DEFINE g == [k \in 0 .. Len(insts) |-> e]
<1>1. Len(insts) \in Nat
  BY DEF IsSeq
<1>2. g[0] = e /\ g[Len(insts)] = e
  BY <1>1
<1>3. ASSUME NEW k \in 1 .. Len(insts) PROVE g[k] = ExecuteOp(insts[k], g[k - 1], pages)
  <2>1. k \in 0 .. Len(insts) /\ k - 1 \in 0 .. Len(insts)
    BY <1>1
  <2>2. g[k] = e /\ g[k - 1] = e
    BY <2>1
  <2>3. ExecuteOp(insts[k], e, pages) = e
    BY DEF ExecuteOp
  <2> QED
    BY <2>2, <2>3
<1> HIDE DEF g
<1>4. ExecuteOps(insts, e, pages) = g[Len(insts)]
  BY <1>1, <1>2, <1>3, RunIs
<1> QED
  BY <1>2, <1>4

LEMMA EndsFields ==
    ASSUME NEW e, NEW b, NEW u, NEW status, NEW c, NEW m, NEW p, NEW ids, EndsIn(e, b, u, status, c, m, p, ids)
    PROVE  /\ e.cpu = c /\ e.mem = m /\ e.pending = p /\ e.block = b /\ e.status = status /\ e.readUndefined = u
           /\ e = [f \in Fields |-> e[f]]
BY DEF EndsIn, EvalState, Fields

\* What one instruction does to both, by the theorem about instructions.
Carries(e2, b, s, r, ids) ==
    /\ r.err = "none" => Tracks(e2, b, r, ids) /\ r.cpu.pc = s.cpu.pc + 4
    /\ r.err # "none" => r.err = "memory" /\ r.cpu = s.cpu /\ r.mem = s.mem /\ FaultsWith(e2, b, s.mem, ids)
LogicalClosed == \A op \in LogicalOps, l, r \in Words : Logical(op, l, r) \in Words

LEMMA InstructionCarries ==
    ASSUME NEW e, NEW b, NEW s, NEW ids, Tracks(e, b, s, ids), NEW i, InstOk(i), ~EndsBlock(i), LogicalClosed,
           NEW n \in Nat, NEW at, Fits(Placed(LiftData(i, n), at), ids), NEW pages, NEW inside
    PROVE  Carries(ExecuteOps(Placed(LiftData(i, n), at), e, pages), b, s, Execute(i, s.cpu, s.mem, pages, inside), ids)
<1> DEFINE data == LiftData(i, n)
           cpu == s.cpu
           m == s.mem
           r == Execute(i, cpu, m, pages, inside)
           e2 == ExecuteOps(data, e, pages)
<1>1. Fine(data)
  BY FineLift
<1>2. IsSeq(data)
  BY <1>1, FineParts
<1>3. ExecuteOps(Placed(data, at), e, pages) = e2
  <2> HIDE DEF data
  <2> QED
    BY <1>2, PlacedRuns
<1>4. Fits(data, ids)
  <2> DEFINE q == Placed(data, at)
  <2> HIDE DEF data
  <2>1. IsSeq(q) /\ Len(q) = Len(data) /\ \A j \in DOMAIN data : q[j].result = data[j].result
    BY <1>2, PlacedOps
  <2> HIDE DEF q
  <2>2. DOMAIN q = DOMAIN data
    BY <1>2, <2>1 DEF IsSeq
  <2>3. Fits(q, ids)
    BY DEF q, data
  <2> QED
    BY <2>1, <2>2, <2>3 DEF Fits
<1>5. PICK c, p : Sees(c, p, cpu) /\ EndsIn(e, b, FALSE, "running", c, m, p, ids)
  BY DEF Tracks
<1>6. PICK vals, d : DOMAIN vals = ids /\ e = Run(b, FALSE, c, m, p, vals, d)
  BY <1>5 DEF EndsIn, Run
<1>7. CpuOk(cpu) /\ MemOk(m) /\ ~cpu.halted
  BY DEF Tracks
<1>8. i.k \notin Jumps \cup {"Svc"}
  BY DEF EndsBlock
<1>9. Lifts(ExecuteOps(data, Run(b, FALSE, c, m, p, vals, d), pages), b, FALSE, DOMAIN vals, cpu, m, r)
  <2> HIDE DEF cpu, m
  <2> QED
    BY <1>4, <1>5, <1>6, <1>7, <1>8, InstructionLifts DEF LogicalClosed
<1>10. Lifts(e2, b, FALSE, ids, cpu, m, r)
  BY <1>6, <1>9
<1> HIDE DEF e2, r
<1>11. Carries(e2, b, s, r, ids)
  BY <1>7, <1>10 DEF Lifts, Carries, Tracks, FaultsWith
<1> QED
  BY <1>3, <1>11 DEF e2, r

LEMMA SameRunning ==
    ASSUME NEW x, NEW y, Same(x, y), y.status = "running", ~y.readUndefined
    PROVE  x = y
<1>1. StateOk(x) /\ StateOk(y) /\ (\A f \in Fields \ {"pending", "readUndefined"} : x[f] = y[f])
      /\ (x.readUndefined => y.readUndefined)
  BY DEF Same, Near
<1>2. x.status = y.status
  BY <1>1 DEF Fields
<1>3. x.pending = y.pending
  BY <1>2 DEF Same
<1>4. x.readUndefined = y.readUndefined
  BY <1>1 DEF StateOk
<1>5. \A f \in Fields : x[f] = y[f]
  BY <1>1, <1>3, <1>4
<1> QED
  BY <1>1, <1>5 DEF StateOk

LEMMA PcMoved ==
    ASSUME NEW cpu, CpuOk(cpu), NEW a \in Nat, NEW f, NEW at
    PROVE  /\ With([cpu EXCEPT !.pc = a], f, at) = With(cpu, f, at) /\ CpuOk([cpu EXCEPT !.pc = a])
           /\ [cpu EXCEPT !.pc = a].nzcv = cpu.nzcv /\ [cpu EXCEPT !.pc = a].halted = cpu.halted
           /\ [cpu EXCEPT !.pc = a].pc = a
<1> DEFINE g == cpu.nzcv
           c == With(cpu, g, a)
           l == [cpu EXCEPT !.pc = a]
<1>1. l = c
  <2>1. l = [y \in CpuFields |-> l[y]] /\ \A y \in CpuFields : l[y] = IF y = "pc" THEN a ELSE cpu[y]
    BY DEF CpuOk, CpuFields
  <2>2. c = [y \in CpuFields |-> c[y]] /\ \A y \in CpuFields : c[y] = IF y = "pc" THEN a ELSE cpu[y]
    BY DEF CpuOk, CpuFields, With
  <2> HIDE DEF l, c
  <2> QED
    BY <2>1, <2>2
<1>2. With(c, f, at) = With(cpu, f, at)
  BY WithAgain
<1>3. /\ c = [y \in CpuFields |-> c[y]]
      /\ c.nzcv = g /\ c.pc = a /\ c.x = cpu.x /\ c.sp = cpu.sp /\ c.halted = cpu.halted
  BY WithFields
<1> HIDE DEF c, l
<1>4. CpuOk(c)
  BY <1>3 DEF CpuOk
<1> QED
  BY <1>1, <1>2, <1>3, <1>4 DEF l

\* The state after a terminator that stores the flags it looked at.
Seen(e, flags) == [e EXCEPT !.cpu.nzcv = flags]
Leads(e, t) == [e EXCEPT !.block = t]

LEMMA FlagsObserved ==
    ASSUME NEW e, NEW b, NEW s, NEW ids, Tracks(e, b, s, ids)
    PROVE  Observed(e) = s.cpu.nzcv /\ e.status = "running" /\ Tracks(Seen(e, Observed(e)), b, s, ids)
<1>1. PICK c, p : Sees(c, p, s.cpu) /\ EndsIn(e, b, FALSE, "running", c, s.mem, p, ids)
  BY DEF Tracks
<1>2. PICK f, at : c = With(s.cpu, f, at) /\ FlagsOwed(f, p) = s.cpu.nzcv
  BY <1>1 DEF Sees
<1> DEFINE cpu == s.cpu
           g == cpu.nzcv
           c2 == With(cpu, g, at)
           m == s.mem
<1>3. CpuOk(cpu)
  BY DEF Tracks
<1>4. e.cpu = c /\ e.pending = p /\ e.status = "running"
  BY <1>1, EndsFields
<1>5. c.nzcv = f
  BY <1>2, <1>3, WithFields
<1>6. Observed(e) = g
  BY <1>2, <1>4, <1>5 DEF Observed, FlagsOwed
<1>7. [c EXCEPT !.nzcv = g] = c2
  <2> DEFINE l == [c EXCEPT !.nzcv = g]
  <2> HIDE DEF cpu, g
  <2>1. c = With(cpu, f, at)
    BY <1>2 DEF cpu
  <2>2. l = [y \in CpuFields |-> l[y]] /\ \A y \in CpuFields : l[y] = IF y = "nzcv" THEN g ELSE IF y = "pc" THEN at ELSE cpu[y]
    BY <1>3, <2>1 DEF CpuOk, CpuFields, With
  <2>3. c2 = [y \in CpuFields |-> c2[y]] /\ \A y \in CpuFields : c2[y] = IF y = "nzcv" THEN g ELSE IF y = "pc" THEN at ELSE cpu[y]
    BY <1>3 DEF CpuOk, CpuFields, With
  <2> HIDE DEF l, c2
  <2>4. l = c2
    BY <2>2, <2>3
  <2> QED
    BY <2>4 DEF l
<1>8. Sees(c2, p, cpu)
  <2>1. FlagsOwed(g, p) = g
    BY <1>2 DEF FlagsOwed
  <2> QED
    BY <2>1 DEF Sees
<1>9. EndsIn(Seen(e, g), b, FALSE, "running", c2, m, p, ids)
  <2>1. PICK vals, d : DOMAIN vals = ids /\ e = EvalState(b, FALSE, "running", c, m, p, vals, d)
    BY <1>1 DEF EndsIn
  <2> DEFINE l == [e EXCEPT !.cpu = c2]
             r == EvalState(b, FALSE, "running", c2, m, p, vals, d)
  <2>2. Seen(e, g) = l
    BY <1>4, <1>7 DEF Seen
  <2> HIDE DEF c2, m
  <2>3. l = r
    <3>0. r = [y \in Fields |-> r[y]]
      BY DEF EvalState, Fields
    <3>1. e = [y \in Fields |-> e[y]]
      BY <2>1 DEF EvalState, Fields
    <3>2. l = [y \in Fields |-> l[y]] /\ \A y \in Fields : l[y] = IF y = "cpu" THEN c2 ELSE e[y]
      BY <3>1 DEF Fields
    <3>3. /\ e.cpu = c /\ e.mem = m /\ e.values = vals /\ e.pending = p /\ e.block = b /\ e.status = "running"
          /\ e.defined = d /\ e.readUndefined = FALSE
      BY <2>1 DEF EvalState, m
    <3>4. /\ r.cpu = c2 /\ r.mem = m /\ r.values = vals /\ r.pending = p /\ r.block = b /\ r.status = "running"
          /\ r.defined = d /\ r.readUndefined = FALSE
      BY DEF EvalState
    <3> HIDE DEF l, r
    <3>5. \A y \in Fields : l[y] = r[y]
      BY <3>2, <3>3, <3>4 DEF Fields
    <3> QED
      BY <3>0, <3>2, <3>5
  <2> QED
    BY <2>1, <2>2, <2>3 DEF EndsIn
<1> HIDE DEF c2
<1>10. Tracks(Seen(e, g), b, s, ids)
  BY <1>8, <1>9 DEF Tracks
<1> QED
  BY <1>4, <1>6, <1>10

LEMMA JumpFollows ==
    ASSUME NEW e, NEW b, NEW s, NEW ids, Tracks(e, b, s, ids), NEW a \in Nat, NEW t
    PROVE  Tracks(Leads(e, t), t, Step([s.cpu EXCEPT !.pc = a], s.mem), ids)
<1>1. PICK c, p : Sees(c, p, s.cpu) /\ EndsIn(e, b, FALSE, "running", c, s.mem, p, ids)
  BY DEF Tracks
<1>2. PICK f, at : c = With(s.cpu, f, at) /\ FlagsOwed(f, p) = s.cpu.nzcv
  BY <1>1 DEF Sees
<1> DEFINE cpu2 == [s.cpu EXCEPT !.pc = a]
           m == s.mem
           s2 == Step(cpu2, m)
<1>3. CpuOk(s.cpu) /\ ~s.cpu.halted /\ MemOk(s.mem)
  BY DEF Tracks
<1>4. With(cpu2, f, at) = c /\ CpuOk(cpu2) /\ cpu2.nzcv = s.cpu.nzcv /\ ~cpu2.halted
  BY <1>2, <1>3, PcMoved
<1> HIDE DEF cpu2
<1>5. Sees(c, p, cpu2)
  BY <1>2, <1>4 DEF Sees
<1>6. s2.cpu = cpu2 /\ s2.mem = m /\ s2.err = "none"
  BY DEF Step
<1> HIDE DEF s2
<1>7. EndsIn(Leads(e, t), t, FALSE, "running", c, m, p, ids)
  <2>1. PICK vals, d : DOMAIN vals = ids /\ e = EvalState(b, FALSE, "running", c, m, p, vals, d)
    BY <1>1 DEF EndsIn
  <2> DEFINE l == [e EXCEPT !.block = t]
             r == EvalState(t, FALSE, "running", c, m, p, vals, d)
  <2> HIDE DEF m
  <2>3. l = r
    <3>0. r = [y \in Fields |-> r[y]]
      BY DEF EvalState, Fields
    <3>1. e = [y \in Fields |-> e[y]]
      BY <2>1 DEF EvalState, Fields
    <3>2. l = [y \in Fields |-> l[y]] /\ \A y \in Fields : l[y] = IF y = "block" THEN t ELSE e[y]
      BY <3>1 DEF Fields
    <3>3. /\ e.cpu = c /\ e.mem = m /\ e.values = vals /\ e.pending = p /\ e.block = b /\ e.status = "running"
          /\ e.defined = d /\ e.readUndefined = FALSE
      BY <2>1 DEF EvalState, m
    <3>4. /\ r.cpu = c /\ r.mem = m /\ r.values = vals /\ r.pending = p /\ r.block = t /\ r.status = "running"
          /\ r.defined = d /\ r.readUndefined = FALSE
      BY DEF EvalState
    <3> HIDE DEF l, r
    <3>5. \A y \in Fields : l[y] = r[y]
      BY <3>2, <3>3, <3>4 DEF Fields
    <3> QED
      BY <3>0, <3>2, <3>5
  <2> QED
    BY <2>1, <2>3 DEF EndsIn, Leads
<1>8. Tracks(Leads(e, t), t, s2, ids)
  BY <1>3, <1>4, <1>5, <1>6, <1>7 DEF Tracks
<1> QED
  BY <1>8 DEF s2, cpu2

\* A halt stores the pc after the block's last instruction.
Halting(e, flags, at) == [Seen(e, flags) EXCEPT !.cpu.pc = at + 4, !.cpu.halted = TRUE, !.status = "exit"]
LEMMA HaltEnds ==
    ASSUME NEW e, NEW b, NEW s, NEW ids, Tracks(e, b, s, ids), NEW at, s.cpu.pc = at
    PROVE  /\ Halting(e, Observed(e), at).status = "exit"
           /\ Halting(e, Observed(e), at).mem = s.mem
           /\ Halting(e, Observed(e), at).cpu = [NextPc(s.cpu) EXCEPT !.halted = TRUE]
<1> DEFINE q == Seen(e, Observed(e))
<1>1. Tracks(q, b, s, ids) /\ Observed(e) = s.cpu.nzcv
  BY FlagsObserved
<1>2. PICK c, p : Sees(c, p, s.cpu) /\ EndsIn(e, b, FALSE, "running", c, s.mem, p, ids)
  BY DEF Tracks
<1>3. PICK f, pc : c = With(s.cpu, f, pc)
  BY <1>2 DEF Sees
<1>4. e.cpu = c /\ e.mem = s.mem /\ e = [y \in Fields |-> e[y]]
  BY <1>2, EndsFields
<1> DEFINE cpu == s.cpu
           c2 == [c EXCEPT !.nzcv = cpu.nzcv]
           c3 == [c2 EXCEPT !.pc = at + 4, !.halted = TRUE]
           r == [NextPc(cpu) EXCEPT !.halted = TRUE]
<1>5. q.cpu = c2 /\ q.mem = s.mem /\ q = [y \in Fields |-> q[y]]
  BY <1>1, <1>4 DEF Seen, Fields
<1> HIDE DEF q, c2
<1>6. [q EXCEPT !.cpu.pc = at + 4, !.cpu.halted = TRUE, !.status = "exit"] = [q EXCEPT !.cpu = c3, !.status = "exit"]
  BY <1>5
<1> HIDE DEF c3
<1>7. /\ [q EXCEPT !.cpu = c3, !.status = "exit"].status = "exit"
      /\ [q EXCEPT !.cpu = c3, !.status = "exit"].mem = s.mem
      /\ [q EXCEPT !.cpu = c3, !.status = "exit"].cpu = c3
  BY <1>5 DEF Fields
<1>8. c3 = r
  <2>1. CpuOk(cpu) /\ cpu.pc = at
    BY DEF Tracks
  <2> HIDE DEF cpu
  <2>2. c = With(cpu, f, pc)
    BY <1>3 DEF cpu
  <2>3. c2 = [y \in CpuFields |-> c2[y]] /\ \A y \in CpuFields : c2[y] = IF y = "pc" THEN pc ELSE cpu[y]
    BY <2>1, <2>2 DEF CpuOk, CpuFields, With, c2
  <2>4. c3 = [y \in CpuFields |-> c3[y]]
        /\ \A y \in CpuFields : c3[y] = IF y = "pc" THEN at + 4 ELSE IF y = "halted" THEN TRUE ELSE c2[y]
    BY <2>3 DEF CpuFields, c3
  <2>5. r = [y \in CpuFields |-> r[y]]
        /\ \A y \in CpuFields : r[y] = IF y = "pc" THEN cpu.pc + 4 ELSE IF y = "halted" THEN TRUE ELSE cpu[y]
    BY <2>1 DEF CpuOk, CpuFields, NextPc
  <2> HIDE DEF r
  <2>6. \A y \in CpuFields : c3[y] = r[y]
    BY <2>1, <2>3, <2>4, <2>5
  <2> QED
    BY <2>4, <2>5, <2>6
<1> QED
  BY <1>6, <1>7, <1>8 DEF Halting, q

-----------------------------------------------------------------------------
(* The interpreter's run as a trace, and the evaluator along it.           *)

\* The interpreter's states, one after another: the loop of Interpret.
StepAfter(t, s) ==
    IF IndexOf(t.prog, Base, s.cpu.pc) = 0 THEN [cpu |-> s.cpu, mem |-> s.mem, err |-> "pc"]
    ELSE LET i == t.prog[IndexOf(t.prog, Base, s.cpu.pc)]
         IN  Execute(i, s.cpu, s.mem, t.pages, i.k \in Jumps /\ IndexOf(t.prog, Base, i.target) # 0)
Traced(t, N, tr) ==
    /\ tr[0] = [cpu |-> NewCpu, mem |-> NewMem, err |-> "none"]
    /\ \A k \in 1 .. N : tr[k - 1].err = "none" /\ ~tr[k - 1].cpu.halted /\ tr[k] = StepAfter(t, tr[k - 1])
\* The last state is one that the evaluator has to reach too.
Owing(s) == s.cpu.halted \/ s.err = "memory"
ProgOk(t, n) ==
    /\ n \in Nat \ {0} /\ n = Len(t.prog) /\ DOMAIN t.prog = 1 .. n
    /\ \A i \in 1 .. n : InstOk(t.prog[i])

\* After instruction i of its block the evaluator is where the trace is, or both have faulted.
InStep(N, tr, e, b, j, i, ids) == j < N /\ Tracks(e, b, tr[j], ids) /\ tr[j].cpu.pc = PcOf(Base, i)
BothFault(N, tr, e, b, ids) ==
    tr[N].err = "memory" /\ ~tr[N].cpu.halted /\ FaultsWith(e, b, tr[N].mem, ids)

LEMMA DataStep ==
    ASSUME NEW t, NEW n, ProgOk(t, n), NEW N \in Nat, NEW tr, Traced(t, N, tr), Owing(tr[N]), Base \in Nat, LogicalClosed,
           NEW e, NEW b, NEW ids, NEW j \in Nat, NEW i \in 1 .. n, InStep(N, tr, e, b, j, i, ids),
           ~EndsBlock(t.prog[i]), Fits(LiftedAt(t.prog, Base, i), ids)
    PROVE  \/ InStep(N, tr, ExecuteOps(LiftedAt(t.prog, Base, i), e, t.pages), b, j + 1, i + 1, ids)
           \/ BothFault(N, tr, ExecuteOps(LiftedAt(t.prog, Base, i), e, t.pages), b, ids)
<1> DEFINE s == tr[j]
           inst == t.prog[i]
           v == ValuesBefore(t.prog)[i]
           at == PcOf(Base, i)
           inside == inst.k \in Jumps /\ IndexOf(t.prog, Base, inst.target) # 0
           r == Execute(inst, s.cpu, s.mem, t.pages, inside)
           e2 == ExecuteOps(LiftedAt(t.prog, Base, i), e, t.pages)
<1>1. n \in Nat /\ n = Len(t.prog) /\ InstOk(inst) /\ j < N /\ Tracks(e, b, s, ids) /\ s.cpu.pc = at
  BY DEF ProgOk, InStep
<1>2. IndexOf(t.prog, Base, at) = i
  BY <1>1, Indexed
<1>3. tr[j + 1] = r
  <2>1. j + 1 \in 1 .. N /\ j + 1 - 1 = j
    BY <1>1
  <2>2. tr[j + 1] = StepAfter(t, s)
    BY <2>1 DEF Traced
  <2> QED
    BY <1>1, <1>2, <2>2 DEF StepAfter
<1>4. v \in Nat
  <2>1. i \in 1 .. n + 1
    BY <1>1
  <2> QED
    BY <1>1, <2>1, CountsNat
<1>5. Carries(e2, b, s, r, ids)
  <2>1. LiftedAt(t.prog, Base, i) = Placed(LiftData(inst, v), at)
    BY DEF LiftedAt
  <2> HIDE DEF v, at, inside, inst
  <2>2. Carries(ExecuteOps(Placed(LiftData(inst, v), at), e, t.pages), b, s,
                Execute(inst, s.cpu, s.mem, t.pages, inside), ids)
    <3> HIDE DEF s
    <3> QED
      BY <1>1, <1>4, <2>1, InstructionCarries DEF inst
  <2> QED
    BY <2>1, <2>2
<1> HIDE DEF e2, r
<1>6. CASE r.err = "none"
  <2>1. Tracks(e2, b, r, ids) /\ r.cpu.pc = s.cpu.pc + 4
    BY <1>5, <1>6 DEF Carries
  <2>2. r.cpu.pc = PcOf(Base, i + 1)
    <3>1. at + 4 = PcOf(Base, i + 1)
      BY DEF PcOf
    <3> QED
      BY <1>1, <2>1, <3>1
  <2>3. j + 1 < N
    <3>1. ~r.cpu.halted
      BY <2>1 DEF Tracks
    <3>2. j + 1 # N
      BY <1>3, <1>6, <3>1 DEF Owing
    <3> QED
      BY <1>1, <3>2
  <2> QED
    BY <1>3, <2>1, <2>2, <2>3 DEF InStep, e2
<1>7. CASE r.err # "none"
  <2>1. r.err = "memory" /\ r.cpu = s.cpu /\ r.mem = s.mem /\ FaultsWith(e2, b, s.mem, ids)
    BY <1>5, <1>7 DEF Carries
  <2>2. j + 1 = N
    <3>1. j + 1 < N => j + 2 \in 1 .. N /\ j + 2 - 1 = j + 1
      BY <1>1
    <3>2. ~(j + 1 < N)
      BY <1>3, <1>7, <3>1 DEF Traced
    <3> QED
      BY <1>1, <3>2
  <2>3. ~s.cpu.halted
    BY <1>1 DEF Tracks
  <2> QED
    BY <1>3, <2>1, <2>2, <2>3 DEF BothFault, e2
<1> QED
  BY <1>6, <1>7

-----------------------------------------------------------------------------
(* A block's instructions.                                                 *)

\* The evaluator after the first k instructions of block b.
StateAfter(t, b, e, k) == IF k = 0 THEN e ELSE ExecuteOps(Joined(CodeOf(t.prog, Base, b), k), e, t.pages)

LEMMA StateSteps ==
    ASSUME NEW t, NEW n, ProgOk(t, n), NEW b \in DOMAIN StartsOf(t.prog, Base), NEW e,
           NEW k \in 1 .. SizeOf(t.prog, Base, b)
    PROVE  /\ StateAfter(t, b, e, k) =
                 ExecuteOps(LiftedAt(t.prog, Base, StartsOf(t.prog, Base)[b] + k - 1), StateAfter(t, b, e, k - 1), t.pages)
           /\ IsSeq(LiftedAt(t.prog, Base, StartsOf(t.prog, Base)[b] + k - 1))
           /\ StartsOf(t.prog, Base)[b] + k - 1 \in 1 .. n
<1> DEFINE size == SizeOf(t.prog, Base, b)
           parts == CodeOf(t.prog, Base, b)
           data == LiftedAt(t.prog, Base, StartsOf(t.prog, Base)[b] + k - 1)
           prog == t.prog
<1>1. n \in Nat \ {0} /\ n = Len(prog) /\ DOMAIN prog = 1 .. n
  BY DEF ProgOk
<1>2. /\ size \in Nat \ {0} /\ Len(parts) = size
      /\ \A l \in 1 .. size : Fine(parts[l])
      /\ parts[k] = data /\ StartsOf(prog, Base)[b] + k - 1 \in 1 .. n
  <2> HIDE DEF prog
  <2>1. b \in DOMAIN StartsOf(prog, Base)
    BY DEF prog
  <2> QED
    BY <1>1, <2>1, CodeFine DEF prog
<1>3. IsSeq(data)
  BY <1>2, FineParts
<1>4. StateAfter(t, b, e, k) = ExecuteOps(parts[k], StateAfter(t, b, e, k - 1), t.pages)
  <2>1. k # 0
    OBVIOUS
  <2> HIDE DEF parts, size
  <2>5. k \in 1 .. size
    BY DEF size
  <2>6. /\ \A z, pages : ExecuteOps(Joined(parts, 1), z, pages) = ExecuteOps(parts[1], z, pages)
        /\ \A l \in 2 .. size : \A z, pages :
              ExecuteOps(Joined(parts, l), z, pages) = ExecuteOps(parts[l], ExecuteOps(Joined(parts, l - 1), z, pages), pages)
    BY <1>2, FrontRuns
  <2>2. StateAfter(t, b, e, k) = ExecuteOps(Joined(parts, k), e, t.pages)
    BY <2>1 DEF StateAfter, parts
  <2>3. CASE k = 1
    <3>1. StateAfter(t, b, e, k - 1) = e
      BY <2>3 DEF StateAfter
    <3>2. ExecuteOps(Joined(parts, 1), e, t.pages) = ExecuteOps(parts[1], e, t.pages)
      BY <2>6
    <3> QED
      BY <2>2, <2>3, <3>1, <3>2
  <2>4. CASE k # 1
    <3>1. k \in 2 .. size /\ k - 1 # 0
      BY <1>2, <2>1, <2>4, <2>5
    <3>2. StateAfter(t, b, e, k - 1) = ExecuteOps(Joined(parts, k - 1), e, t.pages)
      BY <3>1 DEF StateAfter, parts
    <3>3. ExecuteOps(Joined(parts, k), e, t.pages) = ExecuteOps(parts[k], ExecuteOps(Joined(parts, k - 1), e, t.pages), t.pages)
      BY <2>6, <3>1
    <3> QED
      BY <2>2, <3>2, <3>3
  <2> QED
    BY <2>3, <2>4
<1> QED
  BY <1>2, <1>3, <1>4

\* After k instructions of the block.
Reached(t, N, tr, b, e, j, k, ids) ==
    \/ InStep(N, tr, StateAfter(t, b, e, k), b - 1, j + k, StartsOf(t.prog, Base)[b] + k, ids)
    \/ BothFault(N, tr, StateAfter(t, b, e, k), b - 1, ids)

LEMMA ReachedSteps ==
    ASSUME NEW t, NEW n, ProgOk(t, n), NEW N \in Nat, NEW tr, Traced(t, N, tr), Owing(tr[N]), Base \in Nat, LogicalClosed,
           Verify(FunctionOf(t.prog, Base)), NEW b \in DOMAIN StartsOf(t.prog, Base), NEW e, NEW j \in Nat,
           NEW ids, ids = 0 .. FunctionOf(t.prog, Base).values - 1,
           NEW k \in 1 .. SizeOf(t.prog, Base, b), ~EndsBlock(t.prog[StartsOf(t.prog, Base)[b] + k - 1]),
           Reached(t, N, tr, b, e, j, k - 1, ids)
    PROVE  Reached(t, N, tr, b, e, j, k, ids)
<1> DEFINE s == StartsOf(t.prog, Base)[b]
           x == StateAfter(t, b, e, k - 1)
           y == StateAfter(t, b, e, k)
           data == LiftedAt(t.prog, Base, s + k - 1)
           prog == t.prog
<1>1. y = ExecuteOps(data, x, t.pages) /\ IsSeq(data) /\ s + k - 1 \in 1 .. n
  BY StateSteps
<1>2. n \in Nat \ {0} /\ n = Len(prog) /\ DOMAIN prog = 1 .. n
  BY DEF ProgOk
<1>3. s \in Nat
  <2> HIDE DEF prog
  <2>1. b \in DOMAIN StartsOf(prog, Base)
    BY DEF prog
  <2>2. StartsOf(prog, Base)[b] \in 1 .. n
    BY <1>2, <2>1, BlocksShaped DEF BlockShape
  <2> QED
    BY <2>2 DEF prog
<1> HIDE DEF x, y
<1>4. CASE BothFault(N, tr, x, b - 1, ids)
  <2>3. PICK c, p : EndsIn(x, b - 1, FALSE, "fault", c, tr[N].mem, p, ids)
    BY <1>4 DEF BothFault, FaultsWith
  <2>1. x.status = "fault"
    BY <2>3 DEF EndsIn, EvalState
  <2>2. y = x
    BY <1>1, <2>1, OpsAfterFault
  <2> QED
    BY <1>4, <2>2 DEF Reached, y
<1>5. CASE InStep(N, tr, x, b - 1, j + (k - 1), s + (k - 1), ids)
  <2>1. Fits(data, ids)
    <3> HIDE DEF prog
    <3>1. b \in DOMAIN StartsOf(prog, Base) /\ k \in 1 .. SizeOf(prog, Base, b) /\ Verify(FunctionOf(prog, Base))
      BY DEF prog
    <3>2. Fits(LiftedAt(prog, Base, StartsOf(prog, Base)[b] + k - 1), 0 .. FunctionOf(prog, Base).values - 1)
      BY <1>2, <3>1, ValuesFit
    <3> QED
      BY <3>2 DEF prog
  <2> DEFINE i == s + k - 1
             jj == j + (k - 1)
  <2>2. i \in 1 .. n /\ jj \in Nat /\ jj + 1 = j + k /\ i + 1 = s + k /\ s + (k - 1) = i
    BY <1>1, <1>3
  <2>3. InStep(N, tr, x, b - 1, jj, i, ids) /\ ~EndsBlock(t.prog[i]) /\ Fits(LiftedAt(t.prog, Base, i), ids)
        /\ y = ExecuteOps(LiftedAt(t.prog, Base, i), x, t.pages)
    BY <1>1, <1>5, <2>1, <2>2
  <2> HIDE DEF i, jj, s
  <2>4. \/ InStep(N, tr, ExecuteOps(LiftedAt(t.prog, Base, i), x, t.pages), b - 1, jj + 1, i + 1, ids)
        \/ BothFault(N, tr, ExecuteOps(LiftedAt(t.prog, Base, i), x, t.pages), b - 1, ids)
    BY <2>2, <2>3, DataStep
  <2> QED
    BY <2>2, <2>3, <2>4 DEF Reached, y, s
<1> QED
  BY <1>4, <1>5 DEF Reached, x

LEMMA BlockReached ==
    ASSUME NEW t, NEW n, ProgOk(t, n), NEW N \in Nat, NEW tr, Traced(t, N, tr), Owing(tr[N]), Base \in Nat, LogicalClosed,
           Verify(FunctionOf(t.prog, Base)), NEW b \in DOMAIN StartsOf(t.prog, Base), NEW e, NEW j \in Nat,
           NEW ids, ids = 0 .. FunctionOf(t.prog, Base).values - 1,
           NEW d \in Nat, d <= SizeOf(t.prog, Base, b),
           \A k \in 1 .. d : ~EndsBlock(t.prog[StartsOf(t.prog, Base)[b] + k - 1]),
           InStep(N, tr, e, b - 1, j, StartsOf(t.prog, Base)[b], ids)
    PROVE  Reached(t, N, tr, b, e, j, d, ids)
<1> DEFINE T == {k \in Nat : Reached(t, N, tr, b, e, j, k, ids)}
           s == StartsOf(t.prog, Base)[b]
           prog == t.prog
<1>0. n \in Nat \ {0} /\ n = Len(prog) /\ DOMAIN prog = 1 .. n
  BY DEF ProgOk
<1>1. s \in Nat /\ SizeOf(t.prog, Base, b) \in Nat
  <2> HIDE DEF prog
  <2>1. b \in DOMAIN StartsOf(prog, Base)
    BY DEF prog
  <2>2. StartsOf(prog, Base)[b] \in 1 .. n /\ SizeOf(prog, Base, b) \in Nat
    BY <1>0, <2>1, BlocksShaped, CodeFine DEF BlockShape
  <2> QED
    BY <2>2 DEF prog
<1>2. 0 \in T
  <2>1. j + 0 = j /\ s + 0 = s /\ StateAfter(t, b, e, 0) = e
    BY <1>1 DEF StateAfter
  <2>2. Reached(t, N, tr, b, e, j, 0, ids)
    BY <2>1 DEF Reached
  <2> QED
    BY <2>2
<1>3. ASSUME NEW k \in 1 .. d, k - 1 \in T PROVE k \in T
  <2>1. Reached(t, N, tr, b, e, j, k - 1, ids)
    BY <1>3
  <2>2. k \in 1 .. SizeOf(t.prog, Base, b) /\ k \in Nat
    BY <1>1
  <2>3. Reached(t, N, tr, b, e, j, k, ids)
    BY <2>1, <2>2, ReachedSteps
  <2> QED
    BY <2>2, <2>3
<1>4. d \in T
  <2> HIDE DEF T
  <2>1. \A k \in 0 .. d : k \in T
    BY <1>2, <1>3, Upwards
  <2> QED
    BY <2>1
<1> QED
  BY <1>4

LEMMA OptimisedBlock ==
    ASSUME NEW prog, prog # <<>>, NEW b \in DOMAIN StartsOf(prog, Base)
    PROVE  /\ EliminateDeadFlags(FunctionOf(prog, Base)).blocks[b] =
                 [insts |-> WithoutDeadFlags(FlattenSeq(CodeOf(prog, Base, b))), term |-> TermOf(prog, Base, b),
                  at |-> PcOf(Base, EndAt(prog, Base, b))]
           /\ EliminateDeadFlags(FunctionOf(prog, Base)).values = FunctionOf(prog, Base).values
<1> DEFINE starts == StartsOf(prog, Base)
           F == FunctionOf(prog, Base)
           lifted == [c \in DOMAIN starts |-> BlockAt(prog, Base, c)]
<1>1. F = [entry |-> Base, values |-> ValuesBefore(prog)[Len(prog) + 1], deopts |-> <<>>, blocks |-> lifted]
  BY DEF FunctionOf
<1> HIDE DEF F
<1>2. F.blocks = lifted
  BY <1>1
<1>3. EliminateDeadFlags(F) = [F EXCEPT !.blocks = [c \in DOMAIN F.blocks |-> [F.blocks[c] EXCEPT !.insts = WithoutDeadFlags(@)]]]
  BY DEF EliminateDeadFlags
<1> DEFINE opt == [c \in DOMAIN F.blocks |-> [F.blocks[c] EXCEPT !.insts = WithoutDeadFlags(@)]]
<1>4. EliminateDeadFlags(F).blocks = opt /\ EliminateDeadFlags(F).values = F.values
  <2> HIDE DEF opt
  <2>1. EliminateDeadFlags(F) = [F EXCEPT !.blocks = opt]
    BY <1>3 DEF opt
  <2> QED
    BY <1>1, <2>1
<1>5. opt[b] = [BlockAt(prog, Base, b) EXCEPT !.insts = WithoutDeadFlags(@)]
  BY <1>2
<1>6. [BlockAt(prog, Base, b) EXCEPT !.insts = WithoutDeadFlags(@)] =
         [insts |-> WithoutDeadFlags(FlattenSeq(CodeOf(prog, Base, b))), term |-> TermOf(prog, Base, b),
          at |-> PcOf(Base, EndAt(prog, Base, b))]
  BY DEF BlockAt
<1> QED
  BY <1>4, <1>5, <1>6 DEF F

\* The lifted instructions of a block, run to its end.
LEMMA WholeBlock ==
    ASSUME NEW t, NEW n, ProgOk(t, n), NEW b \in DOMAIN StartsOf(t.prog, Base), NEW e, StateOk(e)
    PROVE  Same(ExecuteOps(WithoutDeadFlags(FlattenSeq(CodeOf(t.prog, Base, b))), e, t.pages),
                StateAfter(t, b, e, SizeOf(t.prog, Base, b)))
<1> DEFINE size == SizeOf(t.prog, Base, b)
           parts == CodeOf(t.prog, Base, b)
           prog == t.prog
           all == Joined(parts, size)
<1>1. n \in Nat \ {0} /\ n = Len(prog) /\ DOMAIN prog = 1 .. n
  BY DEF ProgOk
<1>2. size \in Nat \ {0} /\ Len(parts) = size /\ \A l \in 1 .. size : Fine(parts[l])
  <2> HIDE DEF prog
  <2>1. b \in DOMAIN StartsOf(prog, Base)
    BY DEF prog
  <2> QED
    BY <1>1, <2>1, CodeFine DEF prog
<1>3. StateAfter(t, b, e, size) = ExecuteOps(all, e, t.pages)
  BY <1>2 DEF StateAfter
<1> HIDE DEF size, parts
<1>4. FlattenSeq(parts) = all /\ Fine(all)
  <2>1. size \in 1 .. size
    BY <1>2
  <2> QED
    BY <1>2, <2>1, FrontRuns
<1>5. Same(ExecuteOps(WithoutDeadFlags(all), e, t.pages), ExecuteOps(all, e, t.pages))
  <2> HIDE DEF all
  <2>1. IsSeq(all) /\ \A q \in DOMAIN all : InstFine(all[q])
    BY <1>4, FineParts
  <2>2. \A q \in DOMAIN all : IsSetFlags(all[q]) => all[q].result = NoValue
    BY <2>1 DEF InstFine
  <2> QED
    BY <2>1, <2>2, DeadFlagsUnseen
<1> QED
  BY <1>3, <1>4, <1>5 DEF parts, size

\* Where a block's instructions leave the interpreter: at the one that ends the
\* block, or after the last one.
NextAt(prog, b) == IF EndsBlock(prog[EndAt(prog, Base, b)]) THEN EndAt(prog, Base, b) ELSE EndAt(prog, Base, b) + 1
Done(t, b, e) == ExecuteOps(WithoutDeadFlags(FlattenSeq(CodeOf(t.prog, Base, b))), e, t.pages)
RanTo(t, N, tr, b, e, j, ids) ==
    \E l \in Nat : /\ l >= j /\ (~EndsBlock(t.prog[EndAt(t.prog, Base, b)]) => l > j)
                   /\ InStep(N, tr, Done(t, b, e), b - 1, l, NextAt(t.prog, b), ids)
GaveUp(N, tr, done) == done.status = "fault" /\ done.mem = tr[N].mem /\ tr[N].err = "memory" /\ ~tr[N].cpu.halted

LEMMA BlockDone ==
    ASSUME NEW t, NEW n, ProgOk(t, n), NEW N \in Nat, NEW tr, Traced(t, N, tr), Owing(tr[N]), Base \in Nat, LogicalClosed,
           Verify(FunctionOf(t.prog, Base)), NEW b \in DOMAIN StartsOf(t.prog, Base), NEW e, NEW j \in Nat,
           NEW ids, ids = 0 .. FunctionOf(t.prog, Base).values - 1,
           InStep(N, tr, e, b - 1, j, StartsOf(t.prog, Base)[b], ids)
    PROVE  RanTo(t, N, tr, b, e, j, ids) \/ GaveUp(N, tr, Done(t, b, e))
<1> DEFINE s == StartsOf(t.prog, Base)[b]
           end == EndAt(t.prog, Base, b)
           size == SizeOf(t.prog, Base, b)
           prog == t.prog
           d == IF EndsBlock(t.prog[end]) THEN size - 1 ELSE size
           full == StateAfter(t, b, e, size)
           done == Done(t, b, e)
<1>0. n \in Nat \ {0} /\ n = Len(prog) /\ DOMAIN prog = 1 .. n
  BY DEF ProgOk
<1>1. BlockShape(t.prog, Base, n, b)
  <2> HIDE DEF prog
  <2>1. b \in DOMAIN StartsOf(prog, Base)
    BY DEF prog
  <2> QED
    BY <1>0, <2>1, BlocksShaped DEF prog
<1>2. s \in 1 .. n /\ end \in s .. n /\ size = end - s + 1 /\ (\A i \in s .. end - 1 : ~EndsBlock(t.prog[i]))
  BY <1>1 DEF BlockShape, SizeOf
<1>3. StateOk(e)
  <2>1. PICK c, p : EndsIn(e, b - 1, FALSE, "running", c, tr[j].mem, p, ids)
    BY DEF InStep, Tracks
  <2> QED
    BY <2>1 DEF EndsIn, EvalState, StateOk, Fields
<1>4. Same(done, full)
  BY <1>3, WholeBlock DEF Done
<1> HIDE DEF done, full, s, end, size
<1>5. size \in Nat \ {0} /\ s + size = end + 1 /\ s \in Nat /\ end \in Nat
  BY <1>2
<1>6. d \in Nat /\ d <= size
  BY <1>5
<1>7. s + d = NextAt(t.prog, b) /\ (~EndsBlock(t.prog[end]) => d > 0)
  BY <1>5 DEF NextAt, end
<1>8. \A k \in 1 .. d : ~EndsBlock(t.prog[s + k - 1])
  <2> SUFFICES ASSUME NEW k \in 1 .. d PROVE ~EndsBlock(t.prog[s + k - 1])
    OBVIOUS
  <2> DEFINE i == s + k - 1
  <2>1. CASE EndsBlock(t.prog[end])
    <3>1. i \in s .. end - 1
      BY <1>5, <2>1
    <3> HIDE DEF i
    <3>2. ~EndsBlock(t.prog[i])
      BY <1>2, <3>1
    <3> QED
      BY <3>2 DEF i
  <2>2. CASE ~EndsBlock(t.prog[end])
    <3>1. i \in s .. end
      BY <1>5, <2>2
    <3> HIDE DEF i
    <3>2. i # end => i \in s .. end - 1
      BY <1>5, <3>1
    <3>3. ~EndsBlock(t.prog[i])
      BY <1>2, <2>2, <3>2
    <3> QED
      BY <3>3 DEF i
  <2> QED
    BY <2>1, <2>2
<1>9. StateAfter(t, b, e, d) = full
  <2>1. CASE ~EndsBlock(t.prog[end])
    BY <2>1 DEF full
  <2>2. CASE EndsBlock(t.prog[end])
    <3>1. size \in 1 .. size /\ s + size - 1 = end /\ d = size - 1
      BY <1>5, <2>2
    <3>2. full = ExecuteOps(LiftedAt(t.prog, Base, end), StateAfter(t, b, e, size - 1), t.pages)
      BY <3>1, StateSteps DEF full, s, size
    <3>3. LiftData(t.prog[end], ValuesBefore(t.prog)[end]) = <<>>
      BY <2>2 DEF EndsBlock, LiftData, Jumps, Loads
    <3>4. LiftedAt(t.prog, Base, end) = Placed(<<>>, PcOf(Base, end))
      BY <3>3 DEF LiftedAt
    <3>5. IsSeq(<<>>)
      <4>1. <<>> \in Seq({})
        OBVIOUS
      <4> QED
        BY <4>1 DEF IsSeq
    <3>6. \A x : ExecuteOps(Placed(<<>>, PcOf(Base, end)), x, t.pages) = x
      <4> TAKE x
      <4>1. ExecuteOps(<<>>, x, t.pages) = x
        BY NoOps
      <4> QED
        BY <3>5, <4>1, PlacedRuns
    <3> QED
      BY <3>1, <3>2, <3>4, <3>6
  <2> QED
    BY <2>1, <2>2
<1>10. Reached(t, N, tr, b, e, j, d, ids)
  <2> HIDE DEF d
  <2> QED
    BY <1>6, <1>8, BlockReached DEF s, size
<1>11. CASE BothFault(N, tr, full, b - 1, ids)
  <2>1. PICK c, p : EndsIn(full, b - 1, FALSE, "fault", c, tr[N].mem, p, ids)
    BY <1>11 DEF BothFault, FaultsWith
  <2>2. full.status = "fault" /\ full.mem = tr[N].mem
    BY <2>1 DEF EndsIn, EvalState
  <2>3. done.status = full.status /\ done.mem = full.mem
    BY <1>4 DEF Same, Near, Fields
  <2> QED
    BY <1>11, <2>2, <2>3 DEF BothFault, GaveUp, done
<1>12. CASE InStep(N, tr, full, b - 1, j + d, s + d, ids)
  <2>1. PICK c, p : EndsIn(full, b - 1, FALSE, "running", c, tr[j + d].mem, p, ids)
    BY <1>12 DEF InStep, Tracks
  <2>2. full.status = "running" /\ ~full.readUndefined
    BY <2>1 DEF EndsIn, EvalState
  <2>3. done = full
    BY <1>4, <2>2, SameRunning
  <2>4. j + d \in Nat /\ j + d >= j /\ (~EndsBlock(t.prog[end]) => j + d > j)
    BY <1>6, <1>7
  <2>5. InStep(N, tr, Done(t, b, e), b - 1, j + d, NextAt(t.prog, b), ids)
    BY <1>7, <1>12, <2>3 DEF done
  <2> HIDE DEF d
  <2> QED
    BY <2>4, <2>5 DEF RanTo, end
<1> QED
  BY <1>9, <1>10, <1>11, <1>12 DEF Reached, s

-----------------------------------------------------------------------------
(* A block's terminator.                                                   *)

\* Both are at the start of block c.
AtBlock(t, N, tr, y, l, c, ids) == InStep(N, tr, y, c - 1, l, StartsOf(t.prog, Base)[c], ids)
\* The interpreter takes one more step; only its last may be a halt or an error.
OneMore(t, N, tr, l) ==
    /\ tr[l + 1] = StepAfter(t, tr[l])
    /\ l + 1 < N => tr[l + 1].err = "none" /\ ~tr[l + 1].cpu.halted

LEMMA StepsOn ==
    ASSUME NEW t, NEW N \in Nat, NEW tr, Traced(t, N, tr), NEW l \in Nat, l < N
    PROVE  OneMore(t, N, tr, l)
<1>1. l + 1 \in 1 .. N /\ l + 1 - 1 = l
  OBVIOUS
<1>2. tr[l + 1] = StepAfter(t, tr[l])
  BY <1>1 DEF Traced
<1>3. l + 1 < N => l + 2 \in 1 .. N /\ l + 2 - 1 = l + 1
  OBVIOUS
<1>4. ASSUME l + 1 < N PROVE tr[l + 1].err = "none" /\ ~tr[l + 1].cpu.halted
  <2>1. l + 2 \in 1 .. N /\ l + 2 - 1 = l + 1
    BY <1>3, <1>4
  <2>2. tr[l + 2 - 1].err = "none" /\ ~tr[l + 2 - 1].cpu.halted
    BY <2>1 DEF Traced
  <2> QED
    BY <2>1, <2>2
<1> QED
  BY <1>1, <1>2, <1>4 DEF OneMore

LEMMA JumpTo ==
    ASSUME NEW t, NEW n, ProgOk(t, n), NEW N \in Nat, NEW tr, Traced(t, N, tr), Owing(tr[N]), Base \in Nat,
           NEW y, NEW z, NEW ids, NEW l \in Nat, l < N, Tracks(y, z, tr[l], ids),
           NEW q \in BlockStarts(t.prog, Base), tr[l + 1] = Step([tr[l].cpu EXCEPT !.pc = PcOf(Base, q)], tr[l].mem)
    PROVE  \E c \in DOMAIN StartsOf(t.prog, Base) :
              AtBlock(t, N, tr, Leads(y, BlockOfStart(t.prog, Base, q)), l + 1, c, ids)
<1> DEFINE prog == t.prog
           cpu == tr[l].cpu
           a == PcOf(Base, q)
           s2 == Step([cpu EXCEPT !.pc = a], tr[l].mem)
<1>0. n \in Nat \ {0} /\ n = Len(prog) /\ DOMAIN prog = 1 .. n
  BY DEF ProgOk
<1>1. BlockFound(t.prog, Base, q) /\ q \in 1 .. n
  <2> HIDE DEF prog
  <2>1. q \in BlockStarts(prog, Base)
    BY DEF prog
  <2>2. BlockFound(prog, Base, q) /\ q \in 1 .. n
    BY <1>0, <2>1, BlocksShaped, StartsAre
  <2> QED
    BY <2>2 DEF prog
<1>2. PICK c \in DOMAIN StartsOf(t.prog, Base) : StartsOf(t.prog, Base)[c] = q /\ BlockOfStart(t.prog, Base, q) = c - 1
  BY <1>1 DEF BlockFound
<1>3. a \in Nat
  <2>1. n \in Nat
    BY <1>0
  <2> QED
    BY <1>1, <2>1 DEF PcOf
<1> DEFINE u == c - 1
<1>4. Tracks(Leads(y, u), u, s2, ids)
  <2> HIDE DEF u, a
  <2> QED
    BY <1>3, JumpFollows
<1>5. tr[l + 1] = s2
  OBVIOUS
<1>6. s2.err = "none" /\ ~s2.cpu.halted
  BY <1>4 DEF Tracks
<1>7. s2.cpu.pc = a
  <2>1. CpuOk(cpu)
    BY DEF Tracks
  <2>2. [cpu EXCEPT !.pc = a].pc = a
    BY <2>1 DEF CpuOk, CpuFields
  <2> QED
    BY <2>2 DEF Step
<1> HIDE DEF s2
<1>8. l + 1 < N
  <2>1. l + 1 # N
    BY <1>5, <1>6 DEF Owing
  <2> QED
    BY <2>1
<1>9. InStep(N, tr, Leads(y, u), u, l + 1, q, ids)
  BY <1>4, <1>5, <1>7, <1>8 DEF InStep
<1> QED
  BY <1>2, <1>9 DEF AtBlock

\* What a block's terminator may do to both.
Resolved(t) == ~\E i \in DOMAIN t.prog : t.prog[i].k \in Jumps /\ Unresolved(t.prog, Base, i)
BlockOf(t, b) ==
    [insts |-> WithoutDeadFlags(FlattenSeq(CodeOf(t.prog, Base, b))), term |-> TermOf(t.prog, Base, b),
     at |-> PcOf(Base, EndAt(t.prog, Base, b))]
Finished(N, tr, x) ==
    tr[N].cpu.halted /\ tr[N].err = "none" /\ x.status = "exit" /\ x.cpu = tr[N].cpu /\ x.mem = tr[N].mem
Turned(t, N, tr, x, l, ids) ==
    \/ \E c \in DOMAIN StartsOf(t.prog, Base) : AtBlock(t, N, tr, x, l, c, ids)
    \/ Finished(N, tr, x)

LEMMA EndKnown ==
    ASSUME NEW t, NEW n, ProgOk(t, n), NEW b \in DOMAIN StartsOf(t.prog, Base)
    PROVE  EndAt(t.prog, Base, b) \in 1 .. n /\ n \in Nat \ {0} /\ n = Len(t.prog) /\ DOMAIN t.prog = 1 .. n
           /\ BlockShape(t.prog, Base, n, b)
<1> DEFINE prog == t.prog
<1>0. n \in Nat \ {0} /\ n = Len(prog) /\ DOMAIN prog = 1 .. n
  BY DEF ProgOk
<1>1. BlockShape(prog, Base, n, b)
  <2> HIDE DEF prog
  <2>1. b \in DOMAIN StartsOf(prog, Base)
    BY DEF prog
  <2> QED
    BY <1>0, <2>1, BlocksShaped
<1> QED
  BY <1>0, <1>1 DEF BlockShape

LEMMA TakenJump ==
    ASSUME NEW t, NEW n, ProgOk(t, n), NEW N \in Nat, NEW tr, Traced(t, N, tr), Owing(tr[N]), Base \in Nat, Resolved(t),
           NEW y, NEW z, NEW ids, NEW l \in Nat, NEW i \in 1 .. n, InStep(N, tr, y, z, l, i, ids),
           t.prog[i].k \in Jumps, t.prog[i].k = "CondBranch" => Satisfies(tr[l].cpu.nzcv, t.prog[i].cond)
    PROVE  Turned(t, N, tr, Leads(y, TargetOf(t.prog, Base, i)), l + 1, ids)
<1> DEFINE inst == t.prog[i]
           q == IndexOf(t.prog, Base, inst.target)
           prog == t.prog
<1>0. n \in Nat \ {0} /\ n = Len(prog) /\ DOMAIN prog = 1 .. n /\ InstOk(inst) /\ l < N /\ Tracks(y, z, tr[l], ids)
  BY DEF ProgOk, InStep
<1>1. q # 0
  BY <1>0 DEF Resolved, Unresolved
<1>2. inst.target \in Int
  BY <1>0 DEF InstOk
<1>3. q \in 1 .. n /\ inst.target = PcOf(Base, q)
  <2> HIDE DEF prog, inst
  <2>1. \A a \in Int : IndexOf(prog, Base, a) # 0 =>
           IndexOf(prog, Base, a) \in 1 .. n /\ a = PcOf(Base, IndexOf(prog, Base, a))
    BY <1>0, Indexed
  <2> QED
    BY <1>1, <1>2, <2>1 DEF prog
<1>4. q \in BlockStarts(t.prog, Base)
  <2> HIDE DEF prog
  <2>1. \A h \in 1 .. n : prog[h].k \in Jumps /\ IndexOf(prog, Base, prog[h].target) \in 1 .. n =>
           IndexOf(prog, Base, prog[h].target) \in BlockStarts(prog, Base)
    BY <1>0, StartsAre
  <2> QED
    BY <1>3, <2>1 DEF prog
<1>5. IndexOf(t.prog, Base, tr[l].cpu.pc) = i
  <2> HIDE DEF prog
  <2>1. \A h \in 1 .. n : IndexOf(prog, Base, PcOf(Base, h)) = h
    BY <1>0, Indexed
  <2> QED
    BY <2>1 DEF prog, InStep
<1>6. tr[l + 1] = Execute(inst, tr[l].cpu, tr[l].mem, t.pages, inst.k \in Jumps /\ q # 0)
  <2>1. tr[l + 1] = StepAfter(t, tr[l])
    <3>1. l < N
      BY <1>0
    <3> HIDE DEF inst, q, prog
    <3>2. OneMore(t, N, tr, l)
      BY <3>1, StepsOn
    <3> QED
      BY <3>2 DEF OneMore
  <2>2. i # 0
    BY <1>0
  <2> QED
    BY <1>5, <2>1, <2>2 DEF StepAfter
<1>7. tr[l + 1] = Step([tr[l].cpu EXCEPT !.pc = PcOf(Base, q)], tr[l].mem)
  <2> HIDE DEF q
  <2>1. Execute(inst, tr[l].cpu, tr[l].mem, t.pages, inst.k \in Jumps /\ q # 0) =
           ExecuteJump(inst, tr[l].cpu, tr[l].mem, TRUE)
    BY <1>1 DEF Execute, Jumps, Loads
  <2>2. ExecuteJump(inst, tr[l].cpu, tr[l].mem, TRUE) = Step([tr[l].cpu EXCEPT !.pc = inst.target], tr[l].mem)
    BY DEF ExecuteJump
  <2> QED
    BY <1>3, <1>6, <2>1, <2>2
<1> HIDE DEF q
<1>8. \E c \in DOMAIN StartsOf(t.prog, Base) : AtBlock(t, N, tr, Leads(y, BlockOfStart(t.prog, Base, q)), l + 1, c, ids)
  BY <1>0, <1>4, <1>7, JumpTo
<1> QED
  BY <1>8 DEF Turned, TargetOf, q

LEMMA EvalTerms ==
    ASSUME NEW f, NEW blk, NEW x
    PROVE  /\ blk.term.k = "Branch" => EvalTerminator(f, blk, x) = Leads(x, blk.term.target)
           /\ blk.term.k = "CondBranch" => EvalTerminator(f, blk, x) =
                 Leads(Seen(x, Observed(x)), IF Satisfies(Observed(x), blk.term.cond) THEN blk.term.iftrue ELSE blk.term.iffalse)
           /\ blk.term.k = "Halt" => EvalTerminator(f, blk, x) = Halting(x, Observed(x), blk.at)
<1>1. ASSUME blk.term.k = "Branch" PROVE EvalTerminator(f, blk, x) = Leads(x, blk.term.target)
  BY <1>1 DEF EvalTerminator, Leads
<1>2. ASSUME blk.term.k = "CondBranch"
      PROVE EvalTerminator(f, blk, x) =
               Leads(Seen(x, Observed(x)), IF Satisfies(Observed(x), blk.term.cond) THEN blk.term.iftrue ELSE blk.term.iffalse)
  BY <1>2 DEF EvalTerminator, Leads, Seen
<1>3. ASSUME blk.term.k = "Halt" PROVE EvalTerminator(f, blk, x) = Halting(x, Observed(x), blk.at)
  BY <1>3 DEF EvalTerminator, Halting, Seen
<1> QED
  BY <1>1, <1>2, <1>3

LEMMA TermParts ==
    ASSUME NEW t, NEW b
    PROVE  LET i == EndAt(t.prog, Base, b)
               term == BlockOf(t, b).term
           IN  /\ BlockOf(t, b).at = PcOf(Base, i)
               /\ t.prog[i].k = "Branch" => term.k = "Branch" /\ term.target = TargetOf(t.prog, Base, i)
               /\ t.prog[i].k = "CondBranch" =>
                     term.k = "CondBranch" /\ term.cond = t.prog[i].cond
                     /\ term.iftrue = TargetOf(t.prog, Base, i) /\ term.iffalse = BlockOfStart(t.prog, Base, i + 1)
               /\ t.prog[i].k = "Svc" => term.k = "Halt"
               /\ ~EndsBlock(t.prog[i]) /\ b < Len(StartsOf(t.prog, Base)) => term.k = "Branch" /\ term.target = b
<1> DEFINE i == EndAt(t.prog, Base, b)
           k == t.prog[i].k
           term == TermOf(t.prog, Base, b)
<1>1. BlockOf(t, b).term = term /\ BlockOf(t, b).at = PcOf(Base, i)
  BY DEF BlockOf
<1>2. k = "Branch" => term = [k |-> "Branch", target |-> TargetOf(t.prog, Base, i)]
  BY DEF TermOf
<1>3. k = "CondBranch" =>
         term = [k |-> "CondBranch", cond |-> t.prog[i].cond, iftrue |-> TargetOf(t.prog, Base, i),
                 iffalse |-> BlockOfStart(t.prog, Base, i + 1)]
  BY DEF TermOf
<1>4. k = "Svc" => term = [k |-> "Halt"]
  BY DEF TermOf
<1>5. ~EndsBlock(t.prog[i]) /\ b < Len(StartsOf(t.prog, Base)) => term = [k |-> "Branch", target |-> b]
  BY DEF TermOf, EndsBlock, Jumps
<1> HIDE DEF i, term
<1> QED
  BY <1>1, <1>2, <1>3, <1>4, <1>5 DEF i

LEMMA TracksLike ==
    ASSUME NEW e, NEW b, NEW s, NEW ids, Tracks(e, b, s, ids), NEW s2,
           s2.cpu = s.cpu, s2.mem = s.mem, s2.err = s.err
    PROVE  Tracks(e, b, s2, ids)
  BY DEF Tracks

LEMMA BranchTurns ==
    ASSUME NEW t, NEW n, ProgOk(t, n), NEW N \in Nat, NEW tr, Traced(t, N, tr), Owing(tr[N]), Base \in Nat, Resolved(t),
           NEW b \in DOMAIN StartsOf(t.prog, Base), NEW x, NEW ids, NEW l \in Nat, NEW f,
           InStep(N, tr, x, b - 1, l, EndAt(t.prog, Base, b), ids), t.prog[EndAt(t.prog, Base, b)].k = "Branch"
    PROVE  Turned(t, N, tr, EvalTerminator(f, BlockOf(t, b), x), l + 1, ids)
<1> DEFINE i == EndAt(t.prog, Base, b)
           z == b - 1
<1>1. i \in 1 .. n /\ t.prog[i].k \in Jumps /\ t.prog[i].k # "CondBranch"
  BY EndKnown DEF Jumps
<1>2. InStep(N, tr, x, z, l, i, ids)
  OBVIOUS
<1>3. EvalTerminator(f, BlockOf(t, b), x) = Leads(x, TargetOf(t.prog, Base, i))
  <2>1. BlockOf(t, b).term.k = "Branch" /\ BlockOf(t, b).term.target = TargetOf(t.prog, Base, i)
    BY TermParts
  <2> QED
    BY <2>1, EvalTerms
<1> HIDE DEF i, z
<1>4. Turned(t, N, tr, Leads(x, TargetOf(t.prog, Base, i)), l + 1, ids)
  BY <1>1, <1>2, TakenJump
<1> QED
  BY <1>3, <1>4

LEMMA CondTurns ==
    ASSUME NEW t, NEW n, ProgOk(t, n), NEW N \in Nat, NEW tr, Traced(t, N, tr), Owing(tr[N]), Base \in Nat, Resolved(t),
           NEW b \in DOMAIN StartsOf(t.prog, Base), NEW x, NEW ids, NEW l \in Nat, NEW f,
           InStep(N, tr, x, b - 1, l, EndAt(t.prog, Base, b), ids), t.prog[EndAt(t.prog, Base, b)].k = "CondBranch"
    PROVE  Turned(t, N, tr, EvalTerminator(f, BlockOf(t, b), x), l + 1, ids)
<1> DEFINE i == EndAt(t.prog, Base, b)
           z == b - 1
           flags == Observed(x)
           y == Seen(x, flags)
           inst == t.prog[i]
           prog == t.prog
<1>1. i \in 1 .. n /\ inst.k \in Jumps /\ n \in Nat \ {0} /\ n = Len(prog) /\ DOMAIN prog = 1 .. n
  BY EndKnown DEF Jumps
<1>2. l < N /\ Tracks(x, z, tr[l], ids) /\ tr[l].cpu.pc = PcOf(Base, i)
  BY DEF InStep
<1>7. tr[l + 1] = StepAfter(t, tr[l])
  <2>1. l < N
    BY <1>2
  <2> HIDE DEF i, z, flags, inst, prog
  <2>2. OneMore(t, N, tr, l)
    BY <2>1, StepsOn
  <2> QED
    BY <2>2 DEF OneMore
<1>3. flags = tr[l].cpu.nzcv /\ Tracks(y, z, tr[l], ids)
  <2> HIDE DEF z
  <2> QED
    BY <1>2, FlagsObserved
<1>4. EvalTerminator(f, BlockOf(t, b), x) =
         Leads(y, IF Satisfies(flags, inst.cond) THEN TargetOf(t.prog, Base, i) ELSE BlockOfStart(t.prog, Base, i + 1))
  <2> DEFINE term == BlockOf(t, b).term
  <2>1. /\ term.k = "CondBranch" /\ term.cond = inst.cond
        /\ term.iftrue = TargetOf(t.prog, Base, i) /\ term.iffalse = BlockOfStart(t.prog, Base, i + 1)
    BY TermParts
  <2>2. EvalTerminator(f, BlockOf(t, b), x) = Leads(y, IF Satisfies(flags, term.cond) THEN term.iftrue ELSE term.iffalse)
    <3> HIDE DEF y, flags, i, inst
    <3> QED
      BY <2>1, EvalTerms DEF y, flags
  <2> QED
    BY <2>1, <2>2
<1> HIDE DEF y, flags, z
<1>5. CASE Satisfies(flags, inst.cond)
  <2>1. InStep(N, tr, y, z, l, i, ids)
    BY <1>2, <1>3 DEF InStep
  <2>2. Satisfies(tr[l].cpu.nzcv, t.prog[i].cond)
    BY <1>3, <1>5
  <2> HIDE DEF i
  <2>3. Turned(t, N, tr, Leads(y, TargetOf(t.prog, Base, i)), l + 1, ids)
    BY <1>1, <2>1, <2>2, TakenJump
  <2> QED
    BY <1>4, <1>5, <2>3
<1>6. CASE ~Satisfies(flags, inst.cond)
  <2> DEFINE q == i + 1
             cpu == tr[l].cpu
  <2>1. q \in 1 .. n /\ i \in 1 .. n - 1
    <3>1. ~Unresolved(t.prog, Base, i)
      BY <1>1 DEF Resolved
    <3>2. q \in DOMAIN t.prog
      BY <3>1 DEF Unresolved
    <3> QED
      BY <1>1, <3>2
  <2>2. q \in BlockStarts(t.prog, Base)
    <3> HIDE DEF prog, i, q
    <3>1. \A h \in 1 .. n - 1 : EndsBlock(prog[h]) => h + 1 \in BlockStarts(prog, Base)
      BY <1>1, StartsAre
    <3>2. EndsBlock(prog[i])
      BY <1>1 DEF EndsBlock, prog
    <3>3. i + 1 \in BlockStarts(prog, Base)
      BY <2>1, <3>1, <3>2
    <3> QED
      BY <3>3 DEF prog, q
  <2>3. tr[l + 1] = Execute(inst, cpu, tr[l].mem, t.pages, inst.k \in Jumps /\ IndexOf(t.prog, Base, inst.target) # 0)
    <3>1. tr[l + 1] = StepAfter(t, tr[l])
      BY <1>7
    <3>2. IndexOf(t.prog, Base, cpu.pc) = i
      <4> HIDE DEF prog, i
      <4>1. \A h \in 1 .. n : IndexOf(prog, Base, PcOf(Base, h)) = h
        BY <1>1, Indexed
      <4> QED
        BY <1>1, <1>2, <4>1 DEF prog
    <3>3. i # 0
      BY <1>1
    <3> QED
      BY <3>1, <3>2, <3>3 DEF StepAfter
  <2>4. tr[l + 1] = Step(NextPc(cpu), tr[l].mem)
    <3> DEFINE inside == inst.k \in Jumps /\ IndexOf(t.prog, Base, inst.target) # 0
    <3> HIDE DEF inside, i
    <3>1. Execute(inst, cpu, tr[l].mem, t.pages, inside) = ExecuteJump(inst, cpu, tr[l].mem, inside)
      BY <1>1 DEF Execute, Jumps, Loads
    <3>2. ExecuteJump(inst, cpu, tr[l].mem, inside) = Step(NextPc(cpu), tr[l].mem)
      BY <1>3, <1>6 DEF ExecuteJump, i
    <3> QED
      BY <2>3, <3>1, <3>2 DEF inside
  <2>5. NextPc(cpu) = [cpu EXCEPT !.pc = PcOf(Base, q)]
    <3>1. PcOf(Base, i) + 4 = PcOf(Base, q)
      BY <1>1 DEF PcOf
    <3> QED
      BY <1>2, <3>1 DEF NextPc
  <2> HIDE DEF i, q
  <2>6. \E c \in DOMAIN StartsOf(t.prog, Base) : AtBlock(t, N, tr, Leads(y, BlockOfStart(t.prog, Base, q)), l + 1, c, ids)
    BY <1>2, <1>3, <2>2, <2>4, <2>5, JumpTo
  <2> QED
    BY <1>4, <1>6, <2>6 DEF Turned, q
<1> QED
  BY <1>5, <1>6

LEMMA HaltTurns ==
    ASSUME NEW t, NEW n, ProgOk(t, n), NEW N \in Nat, NEW tr, Traced(t, N, tr), Owing(tr[N]), Base \in Nat, Resolved(t),
           NEW b \in DOMAIN StartsOf(t.prog, Base), NEW x, NEW ids, NEW l \in Nat, NEW f,
           InStep(N, tr, x, b - 1, l, EndAt(t.prog, Base, b), ids), t.prog[EndAt(t.prog, Base, b)].k = "Svc"
    PROVE  Turned(t, N, tr, EvalTerminator(f, BlockOf(t, b), x), l + 1, ids)
<1> DEFINE i == EndAt(t.prog, Base, b)
           z == b - 1
           inst == t.prog[i]
           prog == t.prog
           cpu == tr[l].cpu
           r == Step([NextPc(cpu) EXCEPT !.halted = TRUE], tr[l].mem)
           y == EvalTerminator(f, BlockOf(t, b), x)
<1>1. i \in 1 .. n /\ n \in Nat \ {0} /\ n = Len(prog) /\ DOMAIN prog = 1 .. n
  BY EndKnown
<1>2. l < N /\ Tracks(x, z, tr[l], ids) /\ cpu.pc = PcOf(Base, i)
  BY DEF InStep
<1>3. tr[l + 1] = StepAfter(t, tr[l]) /\ (l + 1 < N => ~tr[l + 1].cpu.halted)
  <2>1. l < N
    BY <1>2
  <2> HIDE DEF i, z, inst, prog
  <2>2. OneMore(t, N, tr, l)
    BY <2>1, StepsOn
  <2> QED
    BY <2>2 DEF OneMore
<1>4. tr[l + 1] = r
  <2> DEFINE inside == inst.k \in Jumps /\ IndexOf(t.prog, Base, inst.target) # 0
  <2>1. IndexOf(t.prog, Base, cpu.pc) = i
    <3> HIDE DEF prog, i
    <3>1. \A h \in 1 .. n : IndexOf(prog, Base, PcOf(Base, h)) = h
      BY <1>1, Indexed
    <3> QED
      BY <1>1, <1>2, <3>1 DEF prog
  <2>2. i # 0
    BY <1>1
  <2>3. tr[l + 1] = Execute(inst, cpu, tr[l].mem, t.pages, inside)
    BY <1>3, <2>1, <2>2 DEF StepAfter
  <2> HIDE DEF inside
  <2>4. Execute(inst, cpu, tr[l].mem, t.pages, inside) = r
    BY DEF Execute, Jumps, Loads
  <2> QED
    BY <2>3, <2>4
<1>5. r.cpu = [NextPc(cpu) EXCEPT !.halted = TRUE] /\ r.mem = tr[l].mem /\ r.err = "none" /\ r.cpu.halted
  <2>1. CpuOk(cpu)
    BY <1>2 DEF Tracks
  <2>2. [NextPc(cpu) EXCEPT !.halted = TRUE].halted
    BY <2>1 DEF CpuOk, CpuFields, NextPc
  <2> QED
    BY <2>2 DEF Step
<1>6. l + 1 = N
  BY <1>2, <1>3, <1>4, <1>5
<1>7. y = Halting(x, Observed(x), PcOf(Base, i))
  <2>1. BlockOf(t, b).term.k = "Halt" /\ BlockOf(t, b).at = PcOf(Base, i)
    BY TermParts
  <2> QED
    BY <2>1, EvalTerms
<1> DEFINE at == PcOf(Base, i)
<1>8. y.status = "exit" /\ y.mem = tr[l].mem /\ y.cpu = [NextPc(cpu) EXCEPT !.halted = TRUE]
  <2> HIDE DEF at, z, y, i
  <2>1. Tracks(x, z, tr[l], ids) /\ tr[l].cpu.pc = at
    BY <1>2 DEF at
  <2>2. /\ Halting(x, Observed(x), at).status = "exit"
        /\ Halting(x, Observed(x), at).mem = tr[l].mem
        /\ Halting(x, Observed(x), at).cpu = [NextPc(tr[l].cpu) EXCEPT !.halted = TRUE]
    BY <2>1, HaltEnds
  <2> QED
    BY <1>7, <2>2 DEF at
<1> HIDE DEF y, r
<1>9. Finished(N, tr, y)
  BY <1>4, <1>5, <1>6, <1>8 DEF Finished
<1> QED
  BY <1>9 DEF Turned, y

LEMMA FallsThrough ==
    ASSUME NEW t, NEW n, ProgOk(t, n), NEW N \in Nat, NEW tr, Traced(t, N, tr), Owing(tr[N]), Base \in Nat, Resolved(t),
           NEW b \in DOMAIN StartsOf(t.prog, Base), NEW x, NEW ids, NEW l \in Nat, NEW f,
           InStep(N, tr, x, b - 1, l, EndAt(t.prog, Base, b) + 1, ids), ~EndsBlock(t.prog[EndAt(t.prog, Base, b)])
    PROVE  Turned(t, N, tr, EvalTerminator(f, BlockOf(t, b), x), l, ids)
<1> DEFINE i == EndAt(t.prog, Base, b)
           z == b - 1
           prog == t.prog
           starts == StartsOf(t.prog, Base)
           cpu == tr[l].cpu
           y == EvalTerminator(f, BlockOf(t, b), x)
<1>1. i \in 1 .. n /\ n \in Nat \ {0} /\ n = Len(prog) /\ DOMAIN prog = 1 .. n /\ BlockShape(t.prog, Base, n, b)
  BY EndKnown
<1>2. l < N /\ Tracks(x, z, tr[l], ids) /\ cpu.pc = PcOf(Base, i + 1)
  BY DEF InStep
<1>3. DOMAIN starts = 1 .. Len(starts) /\ Len(starts) \in Nat \ {0}
  <2> HIDE DEF prog
  <2>1. DOMAIN StartsOf(prog, Base) = 1 .. Len(StartsOf(prog, Base)) /\ Len(StartsOf(prog, Base)) \in Nat \ {0}
    BY <1>1, BlocksShaped
  <2> QED
    BY <2>1 DEF prog
<1>4. CASE b < Len(starts)
  <2>1. y = Leads(x, b)
    <3> DEFINE blk == BlockOf(t, b)
    <3>1. blk.term.k = "Branch" /\ blk.term.target = b
      BY <1>4, TermParts
    <3> HIDE DEF blk
    <3>2. EvalTerminator(f, blk, x) = Leads(x, blk.term.target)
      BY <3>1, EvalTerms
    <3> QED
      BY <3>1, <3>2 DEF blk
  <2>2. starts[b + 1] = i + 1 /\ b + 1 \in DOMAIN starts /\ (b + 1) - 1 = b
    <3>1. starts[b + 1] = i + 1
      BY <1>1, <1>4 DEF BlockShape
    <3>2. b \in 1 .. Len(starts) /\ Len(starts) \in Nat
      BY <1>3
    <3> HIDE DEF starts, i, z, cpu, prog, y
    <3>3. b + 1 \in 1 .. Len(starts) /\ (b + 1) - 1 = b
      BY <1>4, <3>2
    <3> QED
      BY <1>3, <3>1, <3>3
  <2> DEFINE a == cpu.pc
             s2 == Step([cpu EXCEPT !.pc = a], tr[l].mem)
  <2>3. CpuOk(cpu) /\ tr[l].err = "none"
    BY <1>2 DEF Tracks
  <2>4. a \in Nat
    BY <2>3 DEF CpuOk
  <2>5. [cpu EXCEPT !.pc = a] = cpu
    <3>1. cpu = [q \in CpuFields |-> cpu[q]]
      BY <2>3 DEF CpuOk
    <3>2. [cpu EXCEPT !.pc = a] = [q \in CpuFields |-> [cpu EXCEPT !.pc = a][q]]
          /\ \A q \in CpuFields : [cpu EXCEPT !.pc = a][q] = cpu[q]
      BY <3>1
    <3> QED
      BY <3>1, <3>2
  <2>6. Tracks(Leads(x, b), b, s2, ids)
    <3> HIDE DEF z, a
    <3> QED
      BY <1>2, <2>4, JumpFollows
  <2>7. s2.cpu = cpu /\ s2.mem = tr[l].mem /\ s2.err = tr[l].err
    BY <2>3, <2>5 DEF Step
  <2> HIDE DEF s2
  <2>8. Tracks(Leads(x, b), b, tr[l], ids)
    BY <2>6, <2>7 DEF Tracks
  <2>9. InStep(N, tr, y, b, l, i + 1, ids)
    BY <1>2, <2>1, <2>8 DEF InStep
  <2> HIDE DEF y, i, starts
  <2>10. AtBlock(t, N, tr, y, l, b + 1, ids)
    BY <2>2, <2>9 DEF AtBlock, starts
  <2> QED
    BY <2>2, <2>10 DEF Turned, y, starts
<1>5. CASE ~(b < Len(starts))
  <2>1. b = Len(starts)
    BY <1>3, <1>5
  <2>2. i = n
    BY <1>1, <2>1 DEF BlockShape
  <2>3. IndexOf(t.prog, Base, cpu.pc) = 0
    <3> HIDE DEF prog, i
    <3>1. IndexOf(prog, Base, PcOf(Base, n + 1)) = 0
      BY <1>1, Indexed
    <3> QED
      BY <1>2, <2>2, <3>1 DEF prog
  <2>4. OneMore(t, N, tr, l)
    <3>1. l < N
      BY <1>2
    <3> HIDE DEF i, z, prog, starts, cpu, y
    <3> QED
      BY <3>1, StepsOn
  <2>5. tr[l + 1].err = "pc" /\ tr[l + 1].cpu = cpu
    BY <2>3, <2>4 DEF OneMore, StepAfter
  <2>6. ~cpu.halted
    BY <1>2 DEF Tracks
  <2>7. l + 1 = N
    BY <1>2, <2>4, <2>5 DEF OneMore
  <2> QED
    BY <2>5, <2>6, <2>7 DEF Owing
<1> QED
  BY <1>4, <1>5

\* One turn of the evaluator's loop.
LEMMA BlockTurns ==
    ASSUME NEW t, NEW n, ProgOk(t, n), NEW N \in Nat, NEW tr, Traced(t, N, tr), Owing(tr[N]), Base \in Nat, Resolved(t),
           LogicalClosed, Verify(FunctionOf(t.prog, Base)), NEW b \in DOMAIN StartsOf(t.prog, Base), NEW e, NEW j \in Nat,
           NEW ids, ids = 0 .. FunctionOf(t.prog, Base).values - 1, AtBlock(t, N, tr, e, j, b, ids)
    PROVE  LET f == EliminateDeadFlags(FunctionOf(t.prog, Base))
               x == EvalBlock(f, e, t.pages)
           IN  \/ \E l \in Nat : l > j /\ Turned(t, N, tr, x, l, ids)
               \/ GaveUp(N, tr, x)
<1> DEFINE f == EliminateDeadFlags(FunctionOf(t.prog, Base))
           x == EvalBlock(f, e, t.pages)
           done == Done(t, b, e)
           prog == t.prog
           i == EndAt(t.prog, Base, b)
<1>1. i \in 1 .. n /\ n \in Nat \ {0} /\ n = Len(prog) /\ DOMAIN prog = 1 .. n /\ BlockShape(t.prog, Base, n, b)
  BY EndKnown
<1>2. e.block = b - 1
  <2>1. PICK c, p : EndsIn(e, b - 1, FALSE, "running", c, tr[j].mem, p, ids)
    BY DEF AtBlock, InStep, Tracks
  <2> QED
    BY <2>1 DEF EndsIn, EvalState
<1>3. b \in Nat \ {0}
  <2> HIDE DEF prog
  <2>1. DOMAIN StartsOf(prog, Base) = 1 .. Len(StartsOf(prog, Base)) /\ Len(StartsOf(prog, Base)) \in Nat \ {0}
    BY <1>1, BlocksShaped
  <2>2. b \in DOMAIN StartsOf(prog, Base)
    BY DEF prog
  <2> QED
    BY <2>1, <2>2
<1>4. e.block + 1 = b
  BY <1>2, <1>3
<1>5. f.blocks[b] = BlockOf(t, b)
  <2>1. prog # <<>>
    BY <1>1
  <2> HIDE DEF prog
  <2>2. b \in DOMAIN StartsOf(prog, Base)
    BY DEF prog
  <2> QED
    BY <2>1, <2>2, OptimisedBlock DEF prog, BlockOf
<1>6. x = IF done.status = "running" THEN EvalTerminator(f, BlockOf(t, b), done) ELSE done
  <2>1. BlockOf(t, b).insts = WithoutDeadFlags(FlattenSeq(CodeOf(t.prog, Base, b)))
    BY DEF BlockOf
  <2> HIDE DEF f
  <2>2. x = LET c == f.blocks[b]
                d == ExecuteOps(c.insts, e, t.pages)
            IN  IF d.status = "running" THEN EvalTerminator(f, c, d) ELSE d
    BY <1>4 DEF EvalBlock
  <2> QED
    BY <1>5, <2>1, <2>2 DEF Done
<1>7. RanTo(t, N, tr, b, e, j, ids) \/ GaveUp(N, tr, done)
  <2> HIDE DEF done, f, x, prog, i
  <2>1. InStep(N, tr, e, b - 1, j, StartsOf(t.prog, Base)[b], ids)
    BY DEF AtBlock
  <2> QED
    BY <2>1, BlockDone DEF done
<1>8. CASE GaveUp(N, tr, done)
  <2>1. x = done
    BY <1>6, <1>8 DEF GaveUp
  <2> QED
    BY <1>8, <2>1
<1>9. CASE RanTo(t, N, tr, b, e, j, ids)
  <2>1. PICK l \in Nat : /\ l >= j /\ (~EndsBlock(t.prog[i]) => l > j)
                         /\ InStep(N, tr, done, b - 1, l, NextAt(t.prog, b), ids)
    BY <1>9 DEF RanTo
  <2>2. done.status = "running"
    <3>1. PICK c, p : EndsIn(done, b - 1, FALSE, "running", c, tr[l].mem, p, ids)
      BY <2>1 DEF InStep, Tracks
    <3> QED
      BY <3>1 DEF EndsIn, EvalState
  <2>3. x = EvalTerminator(f, BlockOf(t, b), done)
    BY <1>6, <2>2
  <2> HIDE DEF x, f, done
  <2>4. CASE EndsBlock(t.prog[i])
    <3>1. InStep(N, tr, done, b - 1, l, EndAt(t.prog, Base, b), ids)
      BY <2>1, <2>4 DEF NextAt
    <3>2. t.prog[EndAt(t.prog, Base, b)].k \in {"Branch", "CondBranch", "Svc"}
      BY <2>4 DEF EndsBlock, Jumps
    <3>3. Turned(t, N, tr, EvalTerminator(f, BlockOf(t, b), done), l + 1, ids)
      <4> HIDE DEF i, prog
      <4>1. CASE t.prog[EndAt(t.prog, Base, b)].k = "Branch"
        BY <3>1, <4>1, BranchTurns
      <4>2. CASE t.prog[EndAt(t.prog, Base, b)].k = "CondBranch"
        BY <3>1, <4>2, CondTurns
      <4>3. CASE t.prog[EndAt(t.prog, Base, b)].k = "Svc"
        BY <3>1, <4>3, HaltTurns
      <4> QED
        BY <3>2, <4>1, <4>2, <4>3
    <3>4. l + 1 \in Nat /\ l + 1 > j
      BY <2>1
    <3> QED
      BY <2>3, <3>3, <3>4 DEF x, f
  <2>5. CASE ~EndsBlock(t.prog[i])
    <3>1. InStep(N, tr, done, b - 1, l, EndAt(t.prog, Base, b) + 1, ids) /\ l > j
      BY <2>1, <2>5 DEF NextAt
    <3>2. Turned(t, N, tr, EvalTerminator(f, BlockOf(t, b), done), l, ids)
      BY <2>5, <3>1, FallsThrough
    <3> QED
      BY <2>3, <3>1, <3>2 DEF x, f
  <2> QED
    BY <2>4, <2>5
<1> QED
  BY <1>7, <1>8, <1>9

-----------------------------------------------------------------------------
(* The inductive invariant of a test's run.                                *)

\* What the evaluator still has to do when the interpreter's trace ends in a halt or a fault.
Translated(t, f) ==
    Resolved(t) /\ Verify(FunctionOf(t.prog, Base)) /\ f = EliminateDeadFlags(FunctionOf(t.prog, Base))
Following(t, N, tr, e, k) ==
    \/ /\ \E n : ProgOk(t, n)
       /\ \E j \in Nat, c \in DOMAIN StartsOf(t.prog, Base) :
             j >= k /\ AtBlock(t, N, tr, e, j, c, 0 .. FunctionOf(t.prog, Base).values - 1)
    \/ Finished(N, tr, e)
    \/ GaveUp(N, tr, e)
Agreed == /\ guestCpu.halted => ev.status = "exit" /\ ev.cpu = guestCpu /\ ev.mem = guestMem
          /\ guestErr = "memory" => ev.status = "fault" /\ ev.mem = guestMem
TraceOf(N, tr) ==
    /\ N <= MaxSteps /\ Traced(test, N, tr)
    /\ tr[N].cpu = guestCpu /\ tr[N].mem = guestMem /\ tr[N].err = guestErr
    /\ stage = "interpret" => steps = N
    /\ stage = "evaluate" => Translated(test, func) /\ (Owing(tr[N]) => Following(test, N, tr, ev, steps))
RunInv ==
    /\ test \in Tests
    /\ test.func = NoFunction =>
          /\ steps \in Nat
          /\ stage \in {"interpret", "evaluate"} => \E N \in Nat : \E tr : TraceOf(N, tr)
          /\ stage = "native" => Agreed

LEMMA StartTracks ==
    ASSUME NEW ids, NEW e, e.cpu = NewCpu,
           e = EvalState(0, FALSE, "running", NewCpu, NewMem, NoFlagSource, [v \in ids |-> 0], {}),
           NEW s, s = [cpu |-> NewCpu, mem |-> NewMem, err |-> "none"], Base \in Nat
    PROVE  Tracks(e, 0, s, ids)
<1>1. CpuOk(NewCpu) /\ ~NewCpu.halted
  BY HalfAssumption DEF CpuOk, NewCpu, CpuFields, Registers, Words
<1>2. MemOk(NewMem)
  BY HalfAssumption, WidthAssumption DEF MemOk, NewMem
<1> DEFINE f == NewCpu.nzcv
           at == NewCpu.pc
           c == NewCpu
<1> HIDE DEF c
<1>3. CpuOk(c)
  BY <1>1 DEF c
<1>4. With(c, c.nzcv, c.pc) = c
  <2> DEFINE l == With(c, c.nzcv, c.pc)
  <2>1. c = [y \in CpuFields |-> c[y]]
    BY <1>3 DEF CpuOk
  <2>2. l = [y \in CpuFields |-> l[y]] /\ \A y \in CpuFields : l[y] = c[y]
    BY <2>1 DEF With, CpuFields
  <2> HIDE DEF l
  <2>3. l = c
    BY <2>1, <2>2
  <2> QED
    BY <2>3 DEF l
<1>5. Sees(c, NoFlagSource, c)
  BY <1>4 DEF Sees, FlagsOwed
<1>6. EndsIn(e, 0, FALSE, "running", c, NewMem, NoFlagSource, ids)
  <2> DEFINE vals == [v \in ids |-> 0]
  <2>1. DOMAIN vals = ids /\ e = EvalState(0, FALSE, "running", c, NewMem, NoFlagSource, vals, {})
    BY DEF c
  <2> HIDE DEF vals
  <2> QED
    BY <2>1 DEF EndsIn
<1>7. s.cpu = c /\ s.mem = NewMem /\ s.err = "none"
  BY DEF c
<1> QED
  BY <1>1, <1>2, <1>5, <1>6, <1>7 DEF Tracks, c

LEMMA NothingOwed ==
    ASSUME NEW t, NEW N \in Nat, NEW tr, Traced(t, N, tr)
    PROVE  /\ Owing(tr[N]) => N # 0
           /\ Owing(tr[N]) => IndexOf(t.prog, Base, Base) # 0
<1>1. tr[0] = [cpu |-> NewCpu, mem |-> NewMem, err |-> "none"]
  BY DEF Traced
<1>2. tr[0].err = "none" /\ ~tr[0].cpu.halted /\ tr[0].cpu.pc = Base
  BY <1>1 DEF NewCpu
<1>3. Owing(tr[N]) => N # 0
  BY <1>2 DEF Owing
<1>4. ASSUME Owing(tr[N]), IndexOf(t.prog, Base, Base) = 0 PROVE FALSE
  <2>1. 0 \in Nat /\ 0 < N
    BY <1>3, <1>4
  <2>2. OneMore(t, N, tr, 0)
    BY <2>1, StepsOn
  <2>3. 0 + 1 = 1
    OBVIOUS
  <2>4. tr[1] = StepAfter(t, tr[0]) /\ (1 < N => tr[1].err = "none" /\ ~tr[1].cpu.halted)
    BY <2>2, <2>3 DEF OneMore
  <2>5. tr[1].err = "pc" /\ tr[1].cpu = tr[0].cpu
    BY <1>2, <1>4, <2>4 DEF StepAfter
  <2>6. N = 1
    BY <2>1, <2>4, <2>5
  <2> QED
    BY <1>2, <1>4, <2>5, <2>6 DEF Owing
<1> QED
  BY <1>3, <1>4

LEMMA TestOk ==
    ASSUME NEW t \in Tests, IndexOf(t.prog, Base, Base) # 0
    PROVE  ProgOk(t, Len(t.prog))
<1> DEFINE prog == t.prog
           n == Len(prog)
<1>1. n \in Nat /\ DOMAIN t.prog = 1 .. n /\ \A i \in 1 .. n : InstOk(t.prog[i])
  BY TestsAssumption
<1>2. n # 0
  <2> SUFFICES ASSUME n = 0 PROVE FALSE
    OBVIOUS
  <2> HIDE DEF prog
  <2>1. IndexOf(prog, Base, PcOf(Base, n + 1)) = 0
    BY <1>1, LimitsAssumption, Indexed
  <2>2. PcOf(Base, n + 1) = Base
    BY LimitsAssumption DEF PcOf
  <2> QED
    BY <2>1, <2>2 DEF prog
<1> QED
  BY <1>1, <1>2 DEF ProgOk

LEMMA StartFollows ==
    ASSUME NEW t \in Tests, NEW N \in Nat, NEW tr, Traced(t, N, tr), Owing(tr[N]), NEW f, Translated(t, f)
    PROVE  Following(t, N, tr, EvalStart(f, NewCpu, NewMem), 0)
<1> DEFINE n == Len(t.prog)
           prog == t.prog
           e == EvalStart(f, NewCpu, NewMem)
           ids == 0 .. FunctionOf(t.prog, Base).values - 1
<1>1. ProgOk(t, n) /\ 0 < N
  BY NothingOwed, TestOk
<1>2. n \in Nat \ {0} /\ n = Len(prog) /\ DOMAIN prog = 1 .. n
  BY <1>1 DEF ProgOk
<1>3. 1 \in DOMAIN StartsOf(t.prog, Base) /\ StartsOf(t.prog, Base)[1] = 1
  <2> HIDE DEF prog
  <2>1. /\ Len(StartsOf(prog, Base)) \in Nat \ {0} /\ DOMAIN StartsOf(prog, Base) = 1 .. Len(StartsOf(prog, Base))
        /\ StartsOf(prog, Base)[1] = 1
    BY <1>2, BlocksShaped
  <2> QED
    BY <2>1 DEF prog
<1>4. f.values = FunctionOf(t.prog, Base).values
  <2>1. prog # <<>>
    BY <1>2
  <2> HIDE DEF prog
  <2>2. 1 \in DOMAIN StartsOf(prog, Base)
    BY <1>3 DEF prog
  <2>3. EliminateDeadFlags(FunctionOf(prog, Base)).values = FunctionOf(prog, Base).values
    BY <2>1, <2>2, OptimisedBlock
  <2> QED
    BY <2>3 DEF Translated, prog
<1>5. e = EvalState(0, FALSE, "running", NewCpu, NewMem, NoFlagSource, [v \in ids |-> 0], {}) /\ e.cpu = NewCpu
  BY <1>4 DEF EvalStart, EvalState
<1>6. tr[0] = [cpu |-> NewCpu, mem |-> NewMem, err |-> "none"]
  BY DEF Traced
<1> HIDE DEF e, ids
<1>7. Tracks(e, 0, tr[0], ids)
  BY <1>5, <1>6, LimitsAssumption, StartTracks
<1>8. tr[0].cpu.pc = PcOf(Base, 1)
  BY <1>6, LimitsAssumption DEF NewCpu, PcOf
<1>9. InStep(N, tr, e, 0, 0, 1, ids)
  BY <1>1, <1>7, <1>8 DEF InStep
<1>10. 1 - 1 = 0
  OBVIOUS
<1>11. AtBlock(t, N, tr, e, 0, 1, ids)
  BY <1>3, <1>9, <1>10 DEF AtBlock
<1> QED
  BY <1>1, <1>3, <1>11 DEF Following, e, ids

LEMMA TurnFollows ==
    ASSUME NEW t, NEW N \in Nat, NEW tr, Traced(t, N, tr), Owing(tr[N]), NEW f, Translated(t, f),
           NEW e, e.status = "running", NEW k \in Nat, Following(t, N, tr, e, k)
    PROVE  Following(t, N, tr, EvalBlock(f, e, t.pages), k + 1)
<1> DEFINE ids == 0 .. FunctionOf(t.prog, Base).values - 1
           x == EvalBlock(f, e, t.pages)
<1>1. ~Finished(N, tr, e) /\ ~GaveUp(N, tr, e)
  BY DEF Finished, GaveUp
<1>2. PICK n : ProgOk(t, n)
  BY <1>1 DEF Following
<1>3. PICK j \in Nat, b \in DOMAIN StartsOf(t.prog, Base) : j >= k /\ AtBlock(t, N, tr, e, j, b, ids)
  BY <1>1 DEF Following
<1>4. LogicalClosed /\ Base \in Nat
  BY LogicalAssumption, LimitsAssumption DEF LogicalClosed
<1>5. Resolved(t) /\ Verify(FunctionOf(t.prog, Base)) /\ f = EliminateDeadFlags(FunctionOf(t.prog, Base))
  BY DEF Translated
<1>6. (\E l \in Nat : l > j /\ Turned(t, N, tr, x, l, ids)) \/ GaveUp(N, tr, x)
  <2> DEFINE g == EliminateDeadFlags(FunctionOf(t.prog, Base))
  <2>1. LET x2 == EvalBlock(g, e, t.pages)
        IN  (\E l \in Nat : l > j /\ Turned(t, N, tr, x2, l, ids)) \/ GaveUp(N, tr, x2)
    BY <1>2, <1>3, <1>4, <1>5, BlockTurns
  <2> QED
    BY <1>5, <2>1
<1> HIDE DEF x, ids
<1>7. ASSUME NEW l \in Nat, l > j, Turned(t, N, tr, x, l, ids) PROVE Following(t, N, tr, x, k + 1)
  <2>1. l >= k + 1
    BY <1>3, <1>7
  <2> QED
    BY <1>2, <1>7, <2>1 DEF Turned, Following, ids
<1> QED
  BY <1>6, <1>7 DEF Following, x

LEMMA TraceGrows ==
    ASSUME NEW t, NEW N \in Nat, NEW tr, Traced(t, N, tr), tr[N].err = "none", ~tr[N].cpu.halted
    PROVE  \E tr2 : Traced(t, N + 1, tr2) /\ tr2[N + 1] = StepAfter(t, tr[N])
<1> DEFINE last == StepAfter(t, tr[N])
           tr2 == [k \in 0 .. N + 1 |-> IF k <= N THEN tr[k] ELSE last]
<1> HIDE DEF last
<1>1. tr2[N + 1] = last
  OBVIOUS
<1>2. \A k \in 0 .. N : tr2[k] = tr[k]
  OBVIOUS
<1> HIDE DEF tr2
<1>3. tr2[0] = tr[0]
  BY <1>2
<1>4. ASSUME NEW k \in 1 .. N + 1
      PROVE  tr2[k - 1].err = "none" /\ ~tr2[k - 1].cpu.halted /\ tr2[k] = StepAfter(t, tr2[k - 1])
  <2>1. k - 1 \in 0 .. N
    OBVIOUS
  <2>2. tr2[k - 1] = tr[k - 1]
    BY <1>2, <2>1
  <2>3. CASE k = N + 1
    <3>1. k - 1 = N
      BY <2>3
    <3> QED
      BY <1>1, <2>2, <2>3, <3>1 DEF last
  <2>4. CASE k # N + 1
    <3>1. k \in 1 .. N /\ k \in 0 .. N
      BY <2>4
    <3>2. tr[k - 1].err = "none" /\ ~tr[k - 1].cpu.halted /\ tr[k] = StepAfter(t, tr[k - 1])
      BY <3>1 DEF Traced
    <3>3. tr2[k] = tr[k]
      BY <1>2, <3>1
    <3> QED
      BY <2>2, <3>2, <3>3
  <2> QED
    BY <2>3, <2>4
<1>5. Traced(t, N + 1, tr2)
  BY <1>3, <1>4 DEF Traced
<1> QED
  BY <1>1, <1>5 DEF last

LEMMA RunStarts == TestInit => RunInv
<1> SUFFICES ASSUME TestInit, test.func = NoFunction PROVE RunInv
  BY DEF TestInit, RunInv
<1> DEFINE tr == [k \in {0} |-> [cpu |-> NewCpu, mem |-> NewMem, err |-> "none"]]
<1>1. tr[0] = [cpu |-> NewCpu, mem |-> NewMem, err |-> "none"]
  OBVIOUS
<1> HIDE DEF tr
<1>2. Traced(test, 0, tr)
  BY <1>1 DEF Traced
<1>3. /\ stage = "interpret" /\ steps = 0 /\ test \in Tests
      /\ guestCpu = NewCpu /\ guestMem = NewMem /\ guestErr = "none"
  BY DEF TestInit
<1>4. tr[0].cpu = guestCpu /\ tr[0].mem = guestMem /\ tr[0].err = guestErr
  BY <1>1, <1>3
<1>5. 0 \in Nat /\ 0 <= MaxSteps
  BY LimitsAssumption
<1>6. TraceOf(0, tr)
  BY <1>2, <1>3, <1>4, <1>5 DEF TraceOf
<1> QED
  BY <1>3, <1>5, <1>6 DEF RunInv

LEMMA InterpretKeeps == RunInv /\ Interpret => RunInv'
<1> SUFFICES ASSUME RunInv, Interpret, test.func = NoFunction PROVE RunInv'
  BY DEF RunInv, Interpret
<1>1. /\ stage = "interpret" /\ guestErr = "none" /\ ~guestCpu.halted /\ steps < MaxSteps
      /\ steps' = steps + 1 /\ test' = test /\ stage' = stage
  BY DEF Interpret
<1>2. PICK N \in Nat : \E tr : TraceOf(N, tr)
  BY <1>1 DEF RunInv
<1>3. PICK tr : TraceOf(N, tr)
  BY <1>2
<1>4. /\ N = steps /\ Traced(test, N, tr)
      /\ tr[N].cpu = guestCpu /\ tr[N].mem = guestMem /\ tr[N].err = guestErr
  BY <1>1, <1>3 DEF TraceOf
<1>5. PICK tr2 : Traced(test, N + 1, tr2) /\ tr2[N + 1] = StepAfter(test, tr[N])
  BY <1>1, <1>4, TraceGrows
<1>6. LET s == StepAfter(test, tr[N]) IN s.cpu = guestCpu' /\ s.mem = guestMem' /\ s.err = guestErr'
  <2> DEFINE at == IndexOf(test.prog, Base, guestCpu.pc)
  <2>1. CASE at = 0
    <3>1. guestErr' = "pc" /\ guestCpu' = guestCpu /\ guestMem' = guestMem
      BY <2>1 DEF Interpret
    <3>2. StepAfter(test, tr[N]) = [cpu |-> guestCpu, mem |-> guestMem, err |-> "pc"]
      BY <1>4, <2>1 DEF StepAfter
    <3> QED
      BY <3>1, <3>2
  <2>2. CASE at # 0
    <3> DEFINE i == test.prog[at]
               s == Execute(i, guestCpu, guestMem, test.pages, i.k \in Jumps /\ IndexOf(test.prog, Base, i.target) # 0)
    <3>1. guestCpu' = s.cpu /\ guestMem' = s.mem /\ guestErr' = s.err
      BY <2>2 DEF Interpret
    <3>2. StepAfter(test, tr[N]) = s
      BY <1>4, <2>2 DEF StepAfter
    <3> HIDE DEF s
    <3> QED
      BY <3>1, <3>2
  <2> QED
    BY <2>1, <2>2
<1>7. N + 1 \in Nat /\ N + 1 <= MaxSteps /\ N + 1 = steps' /\ steps' \in Nat
  BY <1>1, <1>4, LimitsAssumption
<1> DEFINE M == N + 1
<1>8. /\ M \in Nat /\ M <= MaxSteps /\ M = steps' /\ Traced(test', M, tr2)
      /\ tr2[M].cpu = guestCpu' /\ tr2[M].mem = guestMem' /\ tr2[M].err = guestErr'
      /\ stage' = "interpret" /\ steps' \in Nat
  BY <1>1, <1>5, <1>6, <1>7
<1> HIDE DEF M
<1>9. TraceOf(M, tr2)'
  BY <1>8 DEF TraceOf
<1>10. test' \in Tests
  BY <1>1 DEF RunInv
<1> QED
  BY <1>8, <1>9, <1>10 DEF RunInv

LEMMA TranslateKeeps == RunInv /\ Translate => RunInv'
<1> SUFFICES ASSUME RunInv, Translate, test.func = NoFunction PROVE RunInv'
  BY DEF RunInv, Translate
<1> DEFINE lifted == LiftProgram(test.prog, Base)
           F == FunctionOf(test.prog, Base)
           optimised == EliminateDeadFlags(lifted.f)
<1>1. /\ stage = "interpret" /\ steps' = 0 /\ test' = test
      /\ guestCpu' = guestCpu /\ guestMem' = guestMem /\ guestErr' = guestErr
  BY DEF Translate, Interpreted
<1>2. test' \in Tests /\ steps' \in Nat
  BY <1>1 DEF RunInv
<1>3. CASE ~(lifted.ok /\ Verify(optimised))
  <2>1. stage' = "untranslated"
    BY <1>3 DEF Translate
  <2> QED
    BY <1>2, <2>1 DEF RunInv
<1>4. CASE lifted.ok /\ Verify(optimised)
  <2>1. stage' = "evaluate" /\ func' = optimised /\ ev' = EvalStart(optimised, NewCpu, NewMem)
    BY <1>4 DEF Translate
  <2> HIDE DEF F
  <2>2. lifted = IF \E i \in DOMAIN test.prog : test.prog[i].k \in Jumps /\ Unresolved(test.prog, Base, i)
                 THEN [ok |-> FALSE]
                 ELSE IF Verify(F) THEN [ok |-> TRUE, f |-> F] ELSE [ok |-> FALSE]
    BY LiftParts DEF F
  <2> HIDE DEF lifted
  <2>3. Resolved(test) /\ Verify(F) /\ lifted.f = F
    BY <1>4, <2>2 DEF Resolved
  <2>4. Translated(test, optimised)
    BY <2>3 DEF Translated, F
  <2>5. PICK N \in Nat : \E tr : TraceOf(N, tr)
    BY <1>1 DEF RunInv
  <2>6. PICK tr : TraceOf(N, tr)
    BY <2>5
  <2>7. /\ N <= MaxSteps /\ Traced(test, N, tr)
        /\ tr[N].cpu = guestCpu /\ tr[N].mem = guestMem /\ tr[N].err = guestErr
    BY <2>6 DEF TraceOf
  <2> HIDE DEF optimised
  <2>8. Owing(tr[N]) => Following(test, N, tr, EvalStart(optimised, NewCpu, NewMem), 0)
    <3>1. test \in Tests
      BY DEF RunInv
    <3> QED
      BY <2>4, <2>7, <3>1, StartFollows
  <2>9. TraceOf(N, tr)'
    <3>1. Translated(test', func')
      BY <1>1, <2>1, <2>4
    <3>2. Owing(tr[N]) => Following(test', N, tr, ev', steps')
      BY <1>1, <2>1, <2>8
    <3> QED
      BY <1>1, <2>1, <2>7, <3>1, <3>2 DEF TraceOf
  <2> QED
    BY <1>2, <2>1, <2>9 DEF RunInv
<1> QED
  BY <1>3, <1>4

LEMMA EvaluateKeeps == RunInv /\ EvaluateBlock => RunInv'
<1> SUFFICES ASSUME RunInv, EvaluateBlock, test.func = NoFunction PROVE RunInv'
  BY DEF RunInv, EvaluateBlock
<1>1. /\ stage = "evaluate" /\ ev.status = "running" /\ ev' = EvalBlock(func, ev, test.pages) /\ steps' = steps + 1
      /\ test' = test /\ stage' = stage /\ func' = func
      /\ guestCpu' = guestCpu /\ guestMem' = guestMem /\ guestErr' = guestErr
  BY DEF EvaluateBlock
<1>2. test' \in Tests /\ steps \in Nat /\ steps' \in Nat
  BY <1>1 DEF RunInv
<1>3. PICK N \in Nat : \E tr : TraceOf(N, tr)
  BY <1>1 DEF RunInv
<1>4. PICK tr : TraceOf(N, tr)
  BY <1>3
<1>5. /\ N <= MaxSteps /\ Traced(test, N, tr)
      /\ tr[N].cpu = guestCpu /\ tr[N].mem = guestMem /\ tr[N].err = guestErr
      /\ Translated(test, func) /\ (Owing(tr[N]) => Following(test, N, tr, ev, steps))
  BY <1>1, <1>4 DEF TraceOf
<1>6. Owing(tr[N]) => Following(test, N, tr, EvalBlock(func, ev, test.pages), steps + 1)
  BY <1>1, <1>2, <1>5, TurnFollows
<1>7. Owing(tr[N]) => Following(test', N, tr, ev', steps')
  BY <1>1, <1>6
<1>8. TraceOf(N, tr)'
  BY <1>1, <1>5, <1>7 DEF TraceOf
<1> QED
  BY <1>1, <1>2, <1>8 DEF RunInv

LEMMA EvaluatedKeeps == RunInv /\ Evaluated => RunInv'
<1> SUFFICES ASSUME RunInv, Evaluated, test.func = NoFunction PROVE RunInv'
  BY DEF RunInv, Evaluated
<1>1. /\ stage = "evaluate" /\ (ev.status # "running" \/ steps = MaxSteps) /\ stage' = "native" /\ steps' = 0
      /\ test' = test /\ ev' = ev /\ guestCpu' = guestCpu /\ guestMem' = guestMem /\ guestErr' = guestErr
  BY DEF Evaluated
<1>2. test' \in Tests /\ steps \in Nat /\ steps' \in Nat
  BY <1>1 DEF RunInv
<1>3. PICK N \in Nat : \E tr : TraceOf(N, tr)
  BY <1>1 DEF RunInv
<1>4. PICK tr : TraceOf(N, tr)
  BY <1>3
<1>5. /\ N <= MaxSteps /\ tr[N].cpu = guestCpu /\ tr[N].mem = guestMem /\ tr[N].err = guestErr
      /\ (Owing(tr[N]) => Following(test, N, tr, ev, steps))
  BY <1>1, <1>4 DEF TraceOf
<1>6. ASSUME Owing(tr[N]) PROVE Finished(N, tr, ev) \/ GaveUp(N, tr, ev)
  <2> SUFFICES ASSUME NEW j \in Nat, j >= steps, NEW c, NEW ids, AtBlock(test, N, tr, ev, j, c, ids) PROVE FALSE
    BY <1>5, <1>6 DEF Following
  <2>1. j < N /\ Tracks(ev, c - 1, tr[j], ids)
    BY DEF AtBlock, InStep
  <2>2. PICK d, p : EndsIn(ev, c - 1, FALSE, "running", d, tr[j].mem, p, ids)
    BY <2>1 DEF Tracks
  <2>3. ev.status = "running"
    BY <2>2 DEF EndsIn, EvalState
  <2> QED
    BY <1>1, <1>2, <1>5, <2>1, <2>3, LimitsAssumption
<1>7. Agreed
  <2>1. CASE Owing(tr[N])
    BY <1>5, <1>6, <2>1 DEF Finished, GaveUp, Agreed
  <2>2. CASE ~Owing(tr[N])
    BY <1>5, <2>2 DEF Owing, Agreed
  <2> QED
    BY <2>1, <2>2
<1>8. Agreed'
  BY <1>1, <1>7 DEF Agreed
<1> QED
  BY <1>1, <1>2, <1>8 DEF RunInv

LEMMA NativeKeeps == RunInv /\ (NativeBlock \/ NativeFails) => RunInv'
<1> SUFFICES ASSUME RunInv, NativeBlock \/ NativeFails, test.func = NoFunction PROVE RunInv'
  BY DEF RunInv, NativeBlock, NativeFails
<1>1. /\ stage = "native" /\ stage' = stage /\ (steps' = steps + 1 \/ steps' = steps) /\ test' = test
      /\ ev' = ev /\ guestCpu' = guestCpu /\ guestMem' = guestMem /\ guestErr' = guestErr
  BY DEF NativeBlock, NativeFails
<1>2. test' \in Tests /\ steps \in Nat /\ steps' \in Nat /\ Agreed
  BY <1>1 DEF RunInv
<1>3. Agreed'
  BY <1>1, <1>2 DEF Agreed
<1> QED
  BY <1>1, <1>2, <1>3 DEF RunInv

\* Whatever the program and wherever its memory ends, the evaluator halts with
\* the interpreter's registers, flags, monitor and memory, and faults with its
\* memory: lifting and the dead-flag pass lose nothing that a guest program
\* can observe (lift_program, eliminate_dead_flags, evaluate, run_in).
THEOREM EnginesAgree == TestSpec => []NxirAgrees
<1>1. TestInit => RunInv
  BY RunStarts
<1>2. RunInv /\ [TestNext]_testVars => RunInv'
  <2> SUFFICES ASSUME RunInv, [TestNext]_testVars PROVE RunInv'
    OBVIOUS
  <2>1. CASE Interpret
    BY <2>1, InterpretKeeps
  <2>2. CASE Translate
    BY <2>2, TranslateKeeps
  <2>3. CASE EvaluateBlock
    BY <2>3, EvaluateKeeps
  <2>4. CASE Evaluated
    BY <2>4, EvaluatedKeeps
  <2>5. CASE NativeBlock \/ NativeFails
    BY <2>5, NativeKeeps
  <2>6. CASE UNCHANGED testVars
    BY <2>6 DEF testVars, RunInv, TraceOf, Agreed
  <2> QED
    BY <2>1, <2>2, <2>3, <2>4, <2>5, <2>6 DEF TestNext
<1>3. RunInv => NxirAgrees
  BY DEF RunInv, Agreed, NxirAgrees
<1> QED
  BY <1>1, <1>2, <1>3, PTL DEF TestSpec

-----------------------------------------------------------------------------
(* What a list of ops reads: each value defined before, with its type.     *)

\* An earlier op of the list defines v with the type.
GivenBy(a, i, v, type) == v # NoValue /\ \E j \in 1 .. i - 1 : a[j].result = v /\ ResultType(a[j].op) = type
\* Op i reads what stands before it, and defines a value of its own from lo .. hi - 1.
SoundAt(a, i, lo, hi) ==
    /\ \A use \in Operands(a[i].op) : GivenBy(a, i, use[1], use[2])
    /\ (ResultType(a[i].op) = "none") = (a[i].result = NoValue)
    /\ a[i].result # NoValue => a[i].result \in lo .. hi - 1 /\ \A j \in 1 .. i - 1 : a[j].result # a[i].result
Sound(a, lo, hi) == IsSeq(a) /\ \A i \in 1 .. Len(a) : SoundAt(a, i, lo, hi)
Covers(a, lo, hi) == \A v \in lo .. hi - 1 : \E i \in 1 .. Len(a) : a[i].result = v

LEMMA SeqParts ==
    ASSUME NEW a, IsSeq(a), NEW t, IsSeq(t)
    PROVE  /\ IsSeq(a \o t) /\ Len(a) \in Nat /\ Len(t) \in Nat /\ Len(a \o t) = Len(a) + Len(t)
           /\ DOMAIN a = 1 .. Len(a)
           /\ \A i \in 1 .. Len(a) : (a \o t)[i] = a[i]
           /\ \A i \in 1 .. Len(t) : (a \o t)[Len(a) + i] = t[i]
<1>1. PICK S, T : a \in Seq(S) /\ t \in Seq(T)
  BY DEF IsSeq
<1> DEFINE U == S \cup T
<1>2. a \in Seq(U) /\ t \in Seq(U)
  BY <1>1
<1> HIDE DEF U
<1>3. a \o t \in Seq(U)
  BY <1>2
<1>4. IsSeq(a \o t)
  BY <1>3 DEF IsSeq
<1> QED
  BY <1>2, <1>4

\* Sound lists follow each other.
LEMMA SoundJoined ==
    ASSUME NEW lo \in Nat, NEW mid \in Nat, NEW hi \in Nat, lo <= mid, mid <= hi,
           NEW a, Sound(a, lo, mid), NEW t, Sound(t, mid, hi)
    PROVE  Sound(a \o t, lo, hi)
<1> DEFINE q == a \o t
           m == Len(a)
<1>1. /\ IsSeq(q) /\ m \in Nat /\ Len(t) \in Nat /\ Len(q) = m + Len(t)
      /\ \A i \in 1 .. m : q[i] = a[i]
      /\ \A i \in 1 .. Len(t) : q[m + i] = t[i]
  <2>1. IsSeq(a) /\ IsSeq(t)
    BY DEF Sound
  <2> QED
    BY <2>1, SeqParts
<1> HIDE DEF q, m
<1>2. ASSUME NEW i \in 1 .. Len(q) PROVE SoundAt(q, i, lo, hi)
  <2>1. CASE i <= m
    <3>1. i \in 1 .. m /\ \A j \in 1 .. i - 1 : j \in 1 .. m
      BY <1>1, <2>1
    <3>2. q[i] = a[i] /\ \A j \in 1 .. i - 1 : q[j] = a[j]
      BY <1>1, <3>1
    <3>3. SoundAt(a, i, lo, mid)
      BY <3>1 DEF Sound, m
    <3>4. \A v, type : GivenBy(a, i, v, type) => GivenBy(q, i, v, type)
      BY <3>2 DEF GivenBy
    <3>5. \A v : v \in lo .. mid - 1 => v \in lo .. hi - 1
      OBVIOUS
    <3> QED
      BY <3>2, <3>3, <3>4, <3>5 DEF SoundAt
  <2>2. CASE i > m
    <3> DEFINE k == i - m
    <3>1. k \in 1 .. Len(t) /\ i = m + k
      BY <1>1, <2>2
    <3> HIDE DEF k
    <3>2. q[i] = t[k] /\ \A j \in 1 .. k - 1 : j \in 1 .. Len(t) /\ m + j \in 1 .. i - 1 /\ q[m + j] = t[j]
      BY <1>1, <3>1
    <3>3. SoundAt(t, k, mid, hi)
      BY <3>1 DEF Sound
    <3>4. ASSUME NEW v, NEW type, GivenBy(t, k, v, type) PROVE GivenBy(q, i, v, type)
      <4>1. PICK j \in 1 .. k - 1 : t[j].result = v /\ ResultType(t[j].op) = type /\ v # NoValue
        BY <3>4 DEF GivenBy
      <4> QED
        BY <4>1, <3>2 DEF GivenBy
    <3>5. ASSUME q[i].result # NoValue PROVE q[i].result \in lo .. hi - 1 /\ \A j \in 1 .. i - 1 : q[j].result # q[i].result
      <4>1. q[i].result \in mid .. hi - 1 /\ \A j \in 1 .. k - 1 : t[j].result # t[k].result
        BY <3>2, <3>3, <3>5 DEF SoundAt
      <4>2. ASSUME NEW j \in 1 .. i - 1, j <= m PROVE q[j].result # q[i].result
        <5>1. j \in 1 .. Len(a) /\ q[j] = a[j]
          BY <1>1, <4>2, <3>1 DEF m
        <5>2. SoundAt(a, j, lo, mid)
          BY <5>1 DEF Sound
        <5>3. a[j].result = NoValue \/ a[j].result \in lo .. mid - 1
          BY <5>2 DEF SoundAt
        <5> QED
          BY <5>1, <5>3, <4>1 DEF NoValue
      <4>3. ASSUME NEW j \in 1 .. i - 1, j > m PROVE q[j].result # q[i].result
        <5>1. j - m \in 1 .. k - 1 /\ j = m + (j - m)
          BY <1>1, <4>3, <3>1
        <5>2. q[j] = t[j - m]
          BY <5>1, <3>2
        <5> QED
          BY <5>1, <5>2, <4>1, <3>2
      <4>4. \A j \in 1 .. i - 1 : j <= m \/ j > m
        BY <1>1
      <4> QED
        BY <4>1, <4>2, <4>3, <4>4
    <3> QED
      BY <3>2, <3>3, <3>4, <3>5 DEF SoundAt
  <2> QED
    BY <1>1, <2>1, <2>2
<1> QED
  BY <1>1, <1>2 DEF Sound, q

Gives(a, v, type) == GivenBy(a, Len(a) + 1, v, type)

\* One more op at the end of a sound list.
LEMMA SoundMore ==
    ASSUME NEW lo \in Nat, NEW n \in Nat, lo <= n, NEW a, Sound(a, lo, n), Covers(a, lo, n), NEW op,
           \A use \in Operands(op) : Gives(a, use[1], use[2])
    PROVE  /\ ResultType(op) # "none" =>
                 /\ Sound(a \o <<Def(n, op)>>, lo, n + 1) /\ Covers(a \o <<Def(n, op)>>, lo, n + 1)
                 /\ Gives(a \o <<Def(n, op)>>, n, ResultType(op))
                 /\ \A v, type : Gives(a, v, type) => Gives(a \o <<Def(n, op)>>, v, type)
           /\ ResultType(op) = "none" =>
                 /\ Sound(a \o <<Effect(op)>>, lo, n) /\ Covers(a \o <<Effect(op)>>, lo, n)
<1> DEFINE m == Len(a)
<1>1. ASSUME NEW o, o.op = op
      PROVE  LET q == a \o <<o>>
             IN  /\ IsSeq(q) /\ m \in Nat /\ Len(q) = m + 1 /\ q[m + 1] = o
                 /\ \A i \in 1 .. m : q[i] = a[i]
  <2>1. IsSeq(<<o>>)
    <3>1. <<o>> \in Seq({o})
      OBVIOUS
    <3> QED
      BY <3>1 DEF IsSeq
  <2>2. Len(<<o>>) = 1 /\ <<o>>[1] = o /\ 1 \in 1 .. Len(<<o>>)
    OBVIOUS
  <2> HIDE DEF m
  <2> DEFINE s == <<o>>
  <2> HIDE DEF s
  <2>3. /\ IsSeq(a \o s) /\ m \in Nat /\ Len(a \o s) = m + Len(s)
        /\ \A i \in 1 .. m : (a \o s)[i] = a[i]
        /\ \A i \in 1 .. Len(s) : (a \o s)[m + i] = s[i]
    BY <2>1, SeqParts DEF s, m, Sound
  <2> QED
    BY <2>2, <2>3 DEF s
<1> HIDE DEF m
<1>2. ASSUME NEW o, NEW hi \in Nat, n <= hi, NEW q, q = a \o <<o>>, o.op = op,
             (ResultType(op) = "none") = (o.result = NoValue),
             o.result # NoValue => o.result \in n .. hi - 1
      PROVE  Sound(q, lo, hi) /\ \A v, type : Gives(a, v, type) => Gives(q, v, type)
  <2>0. /\ IsSeq(q) /\ m \in Nat /\ Len(q) = m + 1 /\ q[m + 1] = o
        /\ \A i \in 1 .. m : q[i] = a[i]
    BY <1>1, <1>2
  <2>1. ASSUME NEW i \in 1 .. m PROVE SoundAt(q, i, lo, hi)
    <3>1. \A j \in 1 .. i - 1 : j \in 1 .. m
      BY <2>0
    <3>2. q[i] = a[i] /\ \A j \in 1 .. i - 1 : q[j] = a[j]
      BY <2>0, <3>1
    <3>3. SoundAt(a, i, lo, n)
      BY DEF Sound, m
    <3>4. \A v, type : GivenBy(a, i, v, type) => GivenBy(q, i, v, type)
      BY <3>2 DEF GivenBy
    <3>5. \A v : v \in lo .. n - 1 => v \in lo .. hi - 1
      BY <1>2
    <3> QED
      BY <3>2, <3>3, <3>4, <3>5 DEF SoundAt
  <2>2. ASSUME NEW v, NEW type, Gives(a, v, type) PROVE GivenBy(q, m + 1, v, type)
    <3>1. PICK j \in 1 .. m : a[j].result = v /\ ResultType(a[j].op) = type /\ v # NoValue
      BY <2>2, <2>0 DEF Gives, GivenBy, m
    <3>2. j \in 1 .. (m + 1) - 1 /\ q[j] = a[j]
      BY <2>0
    <3> QED
      BY <3>1, <3>2 DEF GivenBy
  <2>3. SoundAt(q, m + 1, lo, hi)
    <3>1. q[m + 1].op = op /\ q[m + 1].result = o.result
      BY <2>0, <1>2
    <3>2. ASSUME o.result # NoValue, NEW j \in 1 .. m PROVE q[j].result # o.result
      <4>1. SoundAt(a, j, lo, n) /\ q[j] = a[j]
        BY <2>0 DEF Sound, m
      <4>2. a[j].result = NoValue \/ a[j].result \in lo .. n - 1
        BY <4>1 DEF SoundAt
      <4> QED
        BY <4>1, <4>2, <3>2, <1>2 DEF NoValue
    <3>3. o.result # NoValue => o.result \in lo .. hi - 1
      BY <1>2
    <3>4. (m + 1) - 1 = m
      BY <2>0
    <3> QED
      BY <3>1, <3>2, <3>3, <3>4, <2>2, <1>2 DEF SoundAt
  <2>4. \A i \in 1 .. Len(q) : i \in 1 .. m \/ i = m + 1
    BY <2>0
  <2>5. ASSUME NEW v, NEW type, Gives(a, v, type) PROVE Gives(q, v, type)
    <3>1. PICK j \in 1 .. m : a[j].result = v /\ ResultType(a[j].op) = type /\ v # NoValue
      BY <2>5, <2>0 DEF Gives, GivenBy, m
    <3>2. j \in 1 .. (Len(q) + 1) - 1 /\ q[j] = a[j]
      BY <2>0
    <3> QED
      BY <3>1, <3>2 DEF GivenBy, Gives
  <2> QED
    BY <2>0, <2>1, <2>3, <2>4, <2>5 DEF Sound
<1>3. ASSUME ResultType(op) # "none"
      PROVE  LET q == a \o <<Def(n, op)>>
             IN  /\ Sound(q, lo, n + 1) /\ Covers(q, lo, n + 1) /\ Gives(q, n, ResultType(op))
                 /\ \A v, type : Gives(a, v, type) => Gives(q, v, type)
  <2> DEFINE o == Def(n, op)
             q == a \o <<o>>
  <2>1. o.op = op /\ o.result = n /\ n # NoValue
    BY DEF Def, NoValue
  <2> HIDE DEF o
  <2>2. IsSeq(q) /\ m \in Nat /\ Len(q) = m + 1 /\ q[m + 1] = o /\ \A i \in 1 .. m : q[i] = a[i]
    BY <1>1, <2>1
  <2> HIDE DEF q
  <2>3. q = a \o <<o>> /\ n + 1 \in Nat /\ n <= n + 1 /\ n \in n .. (n + 1) - 1
    BY DEF q
  <2>4. Sound(q, lo, n + 1) /\ \A v, type : Gives(a, v, type) => Gives(q, v, type)
    BY <1>2, <2>1, <2>3, <1>3
  <2>5. Gives(q, n, ResultType(op))
    <3>1. m + 1 \in 1 .. (Len(q) + 1) - 1
      BY <2>2
    <3> QED
      BY <2>1, <2>2, <3>1 DEF Gives, GivenBy
  <2>6. ASSUME NEW v \in lo .. (n + 1) - 1 PROVE \E i \in 1 .. Len(q) : q[i].result = v
    <3>1. CASE v = n
      <4>1. m + 1 \in 1 .. Len(q)
        BY <2>2
      <4> QED
        BY <2>1, <2>2, <3>1, <4>1
    <3>2. CASE v # n
      <4>1. v \in lo .. n - 1
        BY <3>2
      <4>2. PICK i \in 1 .. m : a[i].result = v
        BY <4>1 DEF Covers, m
      <4>3. i \in 1 .. Len(q) /\ q[i] = a[i]
        BY <2>2
      <4> QED
        BY <4>2, <4>3
    <3> QED
      BY <3>1, <3>2
  <2>7. Covers(q, lo, n + 1)
    BY <2>6 DEF Covers
  <2> QED
    BY <2>4, <2>5, <2>7 DEF q, o
<1>4. ASSUME ResultType(op) = "none"
      PROVE  LET q == a \o <<Effect(op)>> IN Sound(q, lo, n) /\ Covers(q, lo, n)
  <2> DEFINE o == Effect(op)
             q == a \o <<o>>
  <2>1. o.op = op /\ o.result = NoValue
    BY DEF Effect
  <2> HIDE DEF o
  <2>2. IsSeq(q) /\ m \in Nat /\ Len(q) = m + 1 /\ q[m + 1] = o /\ \A i \in 1 .. m : q[i] = a[i]
    BY <1>1, <2>1
  <2> HIDE DEF q
  <2>3. q = a \o <<o>> /\ n <= n
    BY DEF q
  <2>4. Sound(q, lo, n)
    BY <1>2, <2>1, <2>3, <1>4
  <2>6. ASSUME NEW v \in lo .. n - 1 PROVE \E i \in 1 .. Len(q) : q[i].result = v
    <3>2. PICK i \in 1 .. m : a[i].result = v
      BY DEF Covers, m
    <3>3. i \in 1 .. Len(q) /\ q[i] = a[i]
      BY <2>2
    <3> QED
      BY <3>2, <3>3
  <2>7. Covers(q, lo, n)
    BY <2>6 DEF Covers
  <2> QED
    BY <2>4, <2>7 DEF q, o
<1> QED
  BY <1>3, <1>4

Solid(a, lo, hi) == Sound(a, lo, hi) /\ Covers(a, lo, hi) /\ lo <= hi /\ hi \in Nat

\* The list a and one op more that defines hi, or defines nothing.
Defined(a, hi, op) == a \o <<Def(hi, op)>>
Done1(a, op) == a \o <<Effect(op)>>
Reads(a, op) == \A use \in Operands(op) : Gives(a, use[1], use[2])
Keeps(a, b) == \A v, type : Gives(a, v, type) => Gives(b, v, type)

LEMMA SolidMore ==
    ASSUME NEW lo \in Nat, NEW a, NEW hi, Solid(a, lo, hi), NEW op, Reads(a, op)
    PROVE  /\ ResultType(op) # "none" =>
                 /\ Solid(Defined(a, hi, op), lo, hi + 1) /\ Gives(Defined(a, hi, op), hi, ResultType(op))
                 /\ Keeps(a, Defined(a, hi, op))
           /\ ResultType(op) = "none" => Solid(Done1(a, op), lo, hi)
<1>1. hi + 1 \in Nat /\ lo <= hi + 1 /\ hi \in Nat /\ lo <= hi
  BY DEF Solid
<1> QED
  BY <1>1, SoundMore DEF Solid, Defined, Done1, Reads, Keeps

LEMMA NoneSound == ASSUME NEW lo \in Nat PROVE Solid(<<>>, lo, lo)
<1>1. <<>> \in Seq({})
  OBVIOUS
<1>2. IsSeq(<<>>)
  BY <1>1 DEF IsSeq
<1> QED
  BY <1>2 DEF Solid, Sound, Covers

Needs(op, uses, type) == Operands(op) = uses /\ ResultType(op) = type

\* What the ops of the lifter read and define.
LEMMA ConstNeeds == ASSUME NEW w PROVE Needs(ConstOp(w), {}, "I64")
  BY DEF Needs, ConstOp, Operands, ResultType
LEMMA GetNeeds == ASSUME NEW r PROVE Needs(GetReg(r), {}, "I64")
  BY DEF Needs, GetReg, Operands, ResultType
LEMMA SetNeeds == ASSUME NEW r, NEW v PROVE Needs(SetReg(r, v), {<<v, "I64">>}, "none")
  BY DEF Needs, SetReg, Operands, ResultType
LEMMA BinaryNeeds ==
    ASSUME NEW b, NEW v, NEW w
    PROVE  Needs(BinaryI64(b, v, w), {<<v, "I64">>, <<w, "I64">>}, "I64")
  BY DEF Needs, BinaryI64, Operands, ResultType
LEMMA FlagsNeed ==
    ASSUME NEW b, NEW v, NEW w
    PROVE  Needs(SetFlags(b, v, w), {<<v, "I64">>, <<w, "I64">>}, "none")
  BY DEF Needs, SetFlags, Operands, ResultType
LEMMA LowNeeds ==
    ASSUME NEW v
    PROVE  Needs(LowHalf("Trunc", v), {<<v, "I64">>}, "I32") /\ Needs(LowHalf("ZeroExtend", v), {<<v, "I32">>}, "I64")
<1>1. Needs(LowHalf("Trunc", v), {<<v, "I64">>}, "I32")
  BY DEF Needs, LowHalf, Operands, ResultType
<1>2. Needs(LowHalf("ZeroExtend", v), {<<v, "I32">>}, "I64")
  BY DEF Needs, LowHalf, Operands, ResultType
<1> QED
  BY <1>1, <1>2
LEMMA LoadNeeds ==
    ASSUME NEW k \in Loads, NEW type \in {"I32", "I64"}, NEW a
    PROVE  Needs(LoadFrom(k, type, a), {<<a, "I64">>}, type)
  BY DEF Needs, LoadFrom, Operands, ResultType, Loads
LEMMA StoreNeeds ==
    ASSUME NEW type \in {"I32", "I64"}, NEW a, NEW v
    PROVE  /\ \A k \in {"Store", "StoreRelease"} : Needs(StoreAt(k, type, a, v), {<<a, "I64">>, <<v, type>>}, "none")
           /\ Needs(StoreAt("StoreExclusive", type, a, v), {<<a, "I64">>, <<v, type>>}, "I32")
<1>1. ASSUME NEW k \in {"Store", "StoreRelease"}
      PROVE  Needs(StoreAt(k, type, a, v), {<<a, "I64">>, <<v, type>>}, "none")
  BY DEF Needs, StoreAt, Operands, ResultType
<1>2. Needs(StoreAt("StoreExclusive", type, a, v), {<<a, "I64">>, <<v, type>>}, "I32")
  BY DEF Needs, StoreAt, Operands, ResultType
<1> QED
  BY <1>1, <1>2

\* Adding an op that defines a value, or none, when a gives what it reads.
LEMMA PutNone ==
    ASSUME NEW lo \in Nat, NEW a, NEW hi, Solid(a, lo, hi), NEW op, NEW type, type # "none", Needs(op, {}, type),
           NEW q, q = a \o <<Def(hi, op)>>
    PROVE  Solid(q, lo, hi + 1) /\ Gives(q, hi, type) /\ Keeps(a, q)
<1>1. Reads(a, op) /\ ResultType(op) = type
  BY DEF Reads, Needs
<1> QED
  BY <1>1, SolidMore DEF Defined
LEMMA PutOne ==
    ASSUME NEW lo \in Nat, NEW a, NEW hi, Solid(a, lo, hi), NEW op, NEW type, NEW v, NEW x,
           Needs(op, {<<v, x>>}, type), Gives(a, v, x), NEW q
    PROVE  /\ type # "none" /\ q = a \o <<Def(hi, op)>> => Solid(q, lo, hi + 1) /\ Gives(q, hi, type) /\ Keeps(a, q)
           /\ type = "none" /\ q = a \o <<Effect(op)>> => Solid(q, lo, hi)
<1>1. Reads(a, op) /\ ResultType(op) = type
  BY DEF Reads, Needs
<1> QED
  BY <1>1, SolidMore DEF Defined, Done1

\* A sequence is the concatenation of two it agrees with.
LEMMA Glued ==
    ASSUME NEW S, NEW a \in Seq(S), NEW b \in Seq(S), NEW c \in Seq(S), Len(c) = Len(a) + Len(b),
           \A i \in 1 .. Len(a) : c[i] = a[i], \A i \in 1 .. Len(b) : c[Len(a) + i] = b[i]
    PROVE  c = a \o b
<1>1. /\ a \o b \in Seq(S) /\ Len(a \o b) = Len(a) + Len(b)
      /\ \A i \in 1 .. Len(a) : (a \o b)[i] = a[i]
      /\ \A i \in 1 .. Len(b) : (a \o b)[Len(a) + i] = b[i]
  OBVIOUS
<1> DEFINE d == a \o b
           n == Len(a)
           m == Len(b)
<1>2. n \in Nat /\ m \in Nat /\ d \in Seq(S) /\ Len(d) = n + m /\ Len(c) = n + m
  BY <1>1
<1>3. ASSUME NEW i \in 1 .. n + m PROVE c[i] = d[i]
  <2>1. i \in 1 .. n \/ (i - n \in 1 .. m /\ n + (i - n) = i)
    BY <1>2
  <2> QED
    BY <1>1, <2>1
<1> HIDE DEF d
<1>4. c = d
  BY <1>2, <1>3
<1> QED
  BY <1>4 DEF d

\* A list given as a tuple is built one op at a time.
LEMMA Pairs == ASSUME NEW p, NEW q PROVE <<p, q>> = <<p>> \o <<q>>
<1> DEFINE B == {p, q}
           a == <<p>>
           b == <<q>>
           c == <<p, q>>
<1>1. a \in Seq(B) /\ b \in Seq(B) /\ c \in Seq(B) /\ Len(a) = 1 /\ Len(b) = 1 /\ Len(c) = 2
  OBVIOUS
<1>2. a[1] = p /\ b[1] = q /\ c[1] = p /\ c[2] = q
  OBVIOUS
<1> HIDE DEF B, a, b, c
<1>3. \A i \in 1 .. Len(a) : c[i] = a[i]
  BY <1>1, <1>2
<1>4. \A i \in 1 .. Len(b) : c[Len(a) + i] = b[i]
  BY <1>1, <1>2
<1>5. Len(c) = Len(a) + Len(b)
  BY <1>1
<1>6. c = a \o b
  BY <1>1, <1>3, <1>4, <1>5, Glued
<1> QED
  BY <1>6 DEF a, b, c

LEMMA Tuples1 == ASSUME NEW p PROVE <<p>> = <<>> \o <<p>>
  OBVIOUS
LEMMA Tuples3 == ASSUME NEW p, NEW q, NEW r PROVE <<p, q, r>> = <<p, q>> \o <<r>>
<1>1. <<r>> \in Seq({p, q, r}) /\ <<p, q>> \in Seq({p, q, r}) /\ <<p, q, r>> \in Seq({p, q, r})
  OBVIOUS
<1> QED
  BY <1>1
LEMMA Tuples4 == ASSUME NEW p, NEW q, NEW r, NEW s PROVE <<p, q, r, s>> = <<p, q, r>> \o <<s>>
<1>1. <<s>> \in Seq({p, q, r, s}) /\ <<p, q, r>> \in Seq({p, q, r, s}) /\ <<p, q, r, s>> \in Seq({p, q, r, s})
  OBVIOUS
<1> QED
  BY <1>1
LEMMA Tuples5 == ASSUME NEW p, NEW q, NEW r, NEW s, NEW u PROVE <<p, q, r, s, u>> = <<p, q, r, s>> \o <<u>>
<1>1. /\ <<u>> \in Seq({p, q, r, s, u}) /\ <<p, q, r, s>> \in Seq({p, q, r, s, u})
      /\ <<p, q, r, s, u>> \in Seq({p, q, r, s, u})
  OBVIOUS
<1> QED
  BY <1>1

-----------------------------------------------------------------------------
(* What lifting one instruction puts in the list, instruction by instruction.*)

\* How many values an instruction defines.
HeadWidth(i) == IF i.k \in {"Load", "Store"} THEN 3 ELSE 1
Width(i) ==
    CASE i.k = "MovZ" -> 1
      [] i.k \in Immediates \cup {"LogicalReg"} -> 3
      [] i.k \in Loads -> HeadWidth(i) + (IF i.size = "Word" THEN 2 ELSE 1)
      [] i.k \in {"Store", "StoreRelease"} -> HeadWidth(i) + (IF i.size = "Word" THEN 2 ELSE 1)
      [] i.k = "StoreExclusive" -> HeadWidth(i) + (IF i.size = "Word" THEN 4 ELSE 3)
      [] OTHER -> 0

LEMMA MovZSound ==
    ASSUME NEW i, i.k = "MovZ", NEW n \in Nat
    PROVE  Solid(LiftData(i, n), n, n + 1)
<1> DEFINE a == <<Def(n, ConstOp(i.imm))>>
           b == <<Def(n, ConstOp(i.imm)), Effect(SetReg(i.rd, n))>>
<1>0. a = <<>> \o <<Def(n, ConstOp(i.imm))>> /\ b = a \o <<Effect(SetReg(i.rd, n))>>
  BY Tuples1, Pairs, Zenon
<1>3. b = LiftData(i, n)
  BY DEF LiftData, Loads, Jumps
<1> HIDE DEF a, b
<1>1. Solid(a, n, n + 1) /\ Gives(a, n, "I64")
  BY <1>0, NoneSound, PutNone, ConstNeeds
<1>2. Solid(b, n, n + 1)
  BY <1>0, <1>1, PutOne, SetNeeds
<1> QED
  BY <1>2, <1>3

LEMMA BinarySound ==
    ASSUME NEW n \in Nat, NEW first, NEW second, NEW b, NEW r, Needs(first, {}, "I64"), Needs(second, {}, "I64")
    PROVE  LET head == <<Def(n, first), Def(n + 1, second), Def(n + 2, BinaryI64(b, n, n + 1))>>
           IN  /\ Solid(head, n, n + 3) /\ Gives(head, n + 2, "I64")
               /\ Solid(<<Def(n, first), Def(n + 1, second), Def(n + 2, BinaryI64(b, n, n + 1)), Effect(SetReg(r, n + 2))>>,
                        n, n + 3)
<1> DEFINE a1 == <<Def(n, first)>>
           a2 == <<Def(n, first), Def(n + 1, second)>>
           a3 == <<Def(n, first), Def(n + 1, second), Def(n + 2, BinaryI64(b, n, n + 1))>>
           a4 == <<Def(n, first), Def(n + 1, second), Def(n + 2, BinaryI64(b, n, n + 1)), Effect(SetReg(r, n + 2))>>
<1>0. n + 1 + 1 = n + 2 /\ n + 2 + 1 = n + 3
  OBVIOUS
<1>1. /\ a1 = <<>> \o <<Def(n, first)>> /\ a2 = a1 \o <<Def(n + 1, second)>>
      /\ a3 = a2 \o <<Def(n + 2, BinaryI64(b, n, n + 1))>> /\ a4 = a3 \o <<Effect(SetReg(r, n + 2))>>
  <2>1. a1 = <<>> \o <<Def(n, first)>>
    BY Tuples1, Zenon
  <2>2. a2 = a1 \o <<Def(n + 1, second)>>
    BY Pairs, Zenon
  <2>3. a3 = a2 \o <<Def(n + 2, BinaryI64(b, n, n + 1))>>
    BY Tuples3, Zenon
  <2>4. a4 = a3 \o <<Effect(SetReg(r, n + 2))>>
    BY Tuples4, Zenon
  <2> QED
    BY <2>1, <2>2, <2>3, <2>4
<1> HIDE DEF a1, a2, a3, a4
<1>2. Solid(a1, n, n + 1) /\ Gives(a1, n, "I64")
  BY <1>1, NoneSound, PutNone
<1>3. Solid(a2, n, n + 1 + 1) /\ Gives(a2, n + 1, "I64") /\ Keeps(a1, a2)
  BY <1>1, <1>2, PutNone
<1>4. Solid(a2, n, n + 2) /\ Gives(a2, n, "I64") /\ Gives(a2, n + 1, "I64")
  BY <1>0, <1>2, <1>3 DEF Keeps
<1>5. Solid(a3, n, n + 2 + 1) /\ Gives(a3, n + 2, "I64")
  <2> DEFINE op == BinaryI64(b, n, n + 1)
  <2>1. a3 = a2 \o <<Def(n + 2, op)>>
    BY <1>1
  <2>2. Operands(op) = {<<n, "I64">>, <<n + 1, "I64">>} /\ ResultType(op) = "I64"
    BY BinaryNeeds DEF Needs
  <2> HIDE DEF op
  <2>3. Reads(a2, op)
    BY <2>2, <1>4 DEF Reads
  <2> QED
    BY <2>1, <2>2, <2>3, <1>4, SolidMore DEF Defined, Done1
<1>6. Solid(a3, n, n + 3)
  BY <1>0, <1>5
<1>7. Solid(a4, n, n + 3)
  BY <1>1, <1>5, <1>6, PutOne, SetNeeds
<1> QED
  BY <1>5, <1>6, <1>7 DEF a3, a4

LEMMA FlagSettingSound ==
    ASSUME NEW n \in Nat, NEW first, NEW second, NEW b, NEW r, Needs(first, {}, "I64"), Needs(second, {}, "I64")
    PROVE  Solid(<<Def(n, first), Def(n + 1, second), Effect(SetFlags(b, n, n + 1)),
                   Def(n + 2, BinaryI64(b, n, n + 1)), Effect(SetReg(r, n + 2))>>, n, n + 3)
<1> DEFINE a2 == <<Def(n, first), Def(n + 1, second)>>
           a3 == <<Def(n, first), Def(n + 1, second), Effect(SetFlags(b, n, n + 1))>>
           a4 == <<Def(n, first), Def(n + 1, second), Effect(SetFlags(b, n, n + 1)), Def(n + 2, BinaryI64(b, n, n + 1))>>
           a5 == <<Def(n, first), Def(n + 1, second), Effect(SetFlags(b, n, n + 1)),
                   Def(n + 2, BinaryI64(b, n, n + 1)), Effect(SetReg(r, n + 2))>>
           a1 == <<Def(n, first)>>
<1>0. n + 1 + 1 = n + 2 /\ n + 2 + 1 = n + 3
  OBVIOUS
<1>1. /\ a1 = <<>> \o <<Def(n, first)>> /\ a2 = a1 \o <<Def(n + 1, second)>>
      /\ a3 = a2 \o <<Effect(SetFlags(b, n, n + 1))>>
      /\ a4 = a3 \o <<Def(n + 2, BinaryI64(b, n, n + 1))>> /\ a5 = a4 \o <<Effect(SetReg(r, n + 2))>>
  <2>1. a1 = <<>> \o <<Def(n, first)>>
    BY Tuples1, Zenon
  <2>2. a2 = a1 \o <<Def(n + 1, second)>>
    BY Pairs, Zenon
  <2>3. a3 = a2 \o <<Effect(SetFlags(b, n, n + 1))>>
    BY Tuples3, Zenon
  <2>4. a4 = a3 \o <<Def(n + 2, BinaryI64(b, n, n + 1))>>
    BY Tuples4, Zenon
  <2>5. a5 = a4 \o <<Effect(SetReg(r, n + 2))>>
    <3> DEFINE p == Def(n, first)
               q == Def(n + 1, second)
               s == Effect(SetFlags(b, n, n + 1))
               u == Def(n + 2, BinaryI64(b, n, n + 1))
               w == Effect(SetReg(r, n + 2))
    <3> HIDE DEF p, q, s, u, w
    <3>1. <<p, q, s, u, w>> = <<p, q, s, u>> \o <<w>>
      BY Tuples5
    <3> QED
      BY <3>1 DEF p, q, s, u, w
  <2> QED
    BY <2>1, <2>2, <2>3, <2>4, <2>5
<1>8. Len(a3) = 3 /\ a3[1] = Def(n, first) /\ a3[2] = Def(n + 1, second)
  OBVIOUS
<1> HIDE DEF a1, a2, a3, a4, a5
<1>2. Solid(a1, n, n + 1) /\ Gives(a1, n, "I64")
  BY <1>1, NoneSound, PutNone
<1>3. Solid(a2, n, n + 1 + 1) /\ Gives(a2, n + 1, "I64") /\ Keeps(a1, a2)
  BY <1>1, <1>2, PutNone
<1>4. Solid(a2, n, n + 2) /\ Gives(a2, n, "I64") /\ Gives(a2, n + 1, "I64")
  BY <1>0, <1>2, <1>3 DEF Keeps
<1>5. Solid(a3, n, n + 2)
  <2> DEFINE op == SetFlags(b, n, n + 1)
  <2>1. a3 = a2 \o <<Effect(op)>>
    BY <1>1
  <2>2. Operands(op) = {<<n, "I64">>, <<n + 1, "I64">>} /\ ResultType(op) = "none"
    BY FlagsNeed DEF Needs
  <2> HIDE DEF op
  <2>3. Reads(a2, op)
    BY <2>2, <1>4 DEF Reads
  <2> QED
    BY <2>1, <2>2, <2>3, <1>4, SolidMore DEF Defined, Done1
<1>9. Gives(a3, n, "I64") /\ Gives(a3, n + 1, "I64")
  <2>1. a3[1].result = n /\ a3[1].op = first /\ a3[2].result = n + 1 /\ a3[2].op = second
    BY <1>8 DEF Def
  <2>2. 1 \in 1 .. (3 + 1) - 1 /\ 2 \in 1 .. (3 + 1) - 1 /\ n # NoValue /\ n + 1 # NoValue
    BY DEF NoValue
  <2> QED
    BY <2>1, <2>2, <1>8 DEF Gives, GivenBy, Needs
<1>10. Solid(a4, n, n + 2 + 1) /\ Gives(a4, n + 2, "I64")
  <2> DEFINE op == BinaryI64(b, n, n + 1)
  <2>1. a4 = a3 \o <<Def(n + 2, op)>>
    BY <1>1
  <2>2. Operands(op) = {<<n, "I64">>, <<n + 1, "I64">>} /\ ResultType(op) = "I64"
    BY BinaryNeeds DEF Needs
  <2> HIDE DEF op
  <2>3. Reads(a3, op)
    BY <2>2, <1>9 DEF Reads
  <2> QED
    BY <2>1, <2>2, <2>3, <1>5, SolidMore DEF Defined, Done1
<1>6. Solid(a4, n, n + 3)
  BY <1>0, <1>10
<1>7. Solid(a5, n, n + 3)
  BY <1>1, <1>6, <1>10, PutOne, SetNeeds
<1> QED
  BY <1>7 DEF a5

LEMMA ArithmeticSound ==
    ASSUME NEW i, i.k \in Immediates \cup {"LogicalReg"}, NEW n \in Nat
    PROVE  Solid(LiftData(i, n), n, n + 3)
<1>1. CASE i.k \in {"AddImmediate", "SubImmediate"}
  <2>1. LiftData(i, n) = <<Def(n, GetReg(SpReg(i.rn))), Def(n + 1, ConstOp(i.imm)),
      Def(n + 2, BinaryI64(AddSub[i.k], n, n + 1)), Effect(SetReg(SpReg(i.rd), n + 2))>>
    BY <1>1 DEF LiftData, LiftAddSub, Loads, Jumps
  <2> QED
    BY <2>1, BinarySound, ConstNeeds, GetNeeds
<1>2. CASE i.k \in {"AddsImmediate", "SubsImmediate"}
  <2>1. LiftData(i, n) = <<Def(n, GetReg(SpReg(i.rn))), Def(n + 1, ConstOp(i.imm)), Effect(SetFlags(AddSub[i.k], n, n + 1)),
      Def(n + 2, BinaryI64(AddSub[i.k], n, n + 1)), Effect(SetReg(i.rd, n + 2))>>
    BY <1>2 DEF LiftData, LiftFlagSetting, Loads, Jumps
  <2> QED
    BY <2>1, FlagSettingSound, ConstNeeds, GetNeeds
<1>3. CASE i.k = "LogicalReg"
  <2>1. LiftData(i, n) = <<Def(n, GetReg(i.rn)), Def(n + 1, GetReg(i.rm)),
              Def(n + 2, BinaryI64(i.op, n, n + 1)), Effect(SetReg(i.rd, n + 2))>>
    BY <1>3 DEF LiftData, Loads, Jumps
  <2> QED
    BY <2>1, BinarySound, GetNeeds
<1> QED
  BY <1>1, <1>2, <1>3 DEF Immediates

LEMMA AddressSound ==
    ASSUME NEW i, NEW n \in Nat
    PROVE  /\ Solid(LiftAddress(i, n), n, n + HeadWidth(i)) /\ Len(LiftAddress(i, n)) = HeadWidth(i)
           /\ Gives(LiftAddress(i, n), n + HeadWidth(i) - 1, "I64")
           /\ HeadWidth(i) \in {1, 3}
<1>1. CASE i.k \in {"Load", "Store"}
  <2>1. LiftAddress(i, n) = <<Def(n, GetReg(SpReg(i.rn))), Def(n + 1, ConstOp(i.offset)), Def(n + 2, BinaryI64("Add", n, n + 1))>>
        /\ HeadWidth(i) = 3
    BY <1>1 DEF LiftAddress, HeadWidth
  <2>2. n + 3 - 1 = n + 2
    OBVIOUS
  <2>3. Solid(LiftAddress(i, n), n, n + 3) /\ Gives(LiftAddress(i, n), n + 2, "I64")
    BY <2>1, BinarySound, ConstNeeds, GetNeeds
  <2>4. Len(LiftAddress(i, n)) = 3
    BY <2>1
  <2> QED
    BY <2>1, <2>2, <2>3, <2>4
<1>2. CASE i.k \notin {"Load", "Store"}
  <2>1. LiftAddress(i, n) = <<Def(n, GetReg(SpReg(i.rn)))>> /\ HeadWidth(i) = 1
    BY <1>2 DEF LiftAddress, HeadWidth
  <2>2. n + 1 - 1 = n
    OBVIOUS
  <2>4. LiftAddress(i, n) = <<>> \o <<Def(n, GetReg(SpReg(i.rn)))>>
    BY <2>1, Tuples1
  <2>3. Solid(LiftAddress(i, n), n, n + 1) /\ Gives(LiftAddress(i, n), n, "I64")
    BY <2>4, NoneSound, PutNone, GetNeeds
  <2>5. Len(LiftAddress(i, n)) = 1
    BY <2>1
  <2> QED
    BY <2>1, <2>2, <2>3, <2>4, <2>5
<1> QED
  BY <1>1, <1>2

\* A list put after another is put there op by op.
LEMMA AppendTwo ==
    ASSUME NEW a, IsSeq(a), NEW p, NEW q
    PROVE  a \o <<p, q>> = (a \o <<p>>) \o <<q>>
<1>1. PICK S : a \in Seq(S)
  BY DEF IsSeq
<1> DEFINE T == S \cup {p, q}
           b == <<p>>
           c == <<q>>
<1>2. a \in Seq(T) /\ b \in Seq(T) /\ c \in Seq(T)
  BY <1>1
<1>3. <<p, q>> = b \o c
  BY Pairs, Zenon
<1> HIDE DEF T, b, c
<1>4. a \o (b \o c) = (a \o b) \o c
  BY <1>2
<1> QED
  BY <1>3, <1>4 DEF b, c
LEMMA JoinedTwice ==
    ASSUME NEW a, IsSeq(a), NEW b, IsSeq(b), NEW c, IsSeq(c)
    PROVE  a \o (b \o c) = (a \o b) \o c
<1>1. PICK S1, S2, S3 : a \in Seq(S1) /\ b \in Seq(S2) /\ c \in Seq(S3)
  BY DEF IsSeq
<1> DEFINE T == S1 \cup S2 \cup S3
<1>2. a \in Seq(T) /\ b \in Seq(T) /\ c \in Seq(T)
  BY <1>1
<1> HIDE DEF T
<1> QED
  BY <1>2
LEMMA TuplesAreSeqs == ASSUME NEW p, NEW q PROVE IsSeq(<<p>>) /\ IsSeq(<<p, q>>)
<1>1. <<p>> \in Seq({p, q}) /\ <<p, q>> \in Seq({p, q})
  OBVIOUS
<1> QED
  BY <1>1 DEF IsSeq

\* The ops after the address: a load and what becomes of what it loaded.
LEMMA LoadTail ==
    ASSUME NEW lo \in Nat, NEW h, NEW m \in Nat, Solid(h, lo, m), NEW a, Gives(h, a, "I64"), NEW r,
           NEW k \in Loads
    PROVE  /\ Solid(h \o <<Def(m, LoadFrom(k, "I32", a)), Def(m + 1, LowHalf("ZeroExtend", m)), Effect(SetReg(r, m + 1))>>,
                    lo, m + 2)
           /\ Solid(h \o <<Def(m, LoadFrom(k, "I64", a)), Effect(SetReg(r, m))>>, lo, m + 1)
<1>0. IsSeq(h) /\ m + 1 + 1 = m + 2 /\ m + 1 \in Nat
  BY DEF Solid, Sound
<1>1. Solid(h \o <<Def(m, LoadFrom(k, "I32", a)), Def(m + 1, LowHalf("ZeroExtend", m)), Effect(SetReg(r, m + 1))>>, lo, m + 2)
  <2> DEFINE p == Def(m, LoadFrom(k, "I32", a))
             q == Def(m + 1, LowHalf("ZeroExtend", m))
             s == Effect(SetReg(r, m + 1))
             h1 == h \o <<p>>
             h2 == h1 \o <<q>>
             h3 == h2 \o <<s>>
  <2>1. Solid(h1, lo, m + 1) /\ Gives(h1, m, "I32")
    <3> HIDE DEF h1
    <3> DEFINE op == LoadFrom(k, "I32", a)
    <3>1. h1 = h \o <<Def(m, op)>>
      BY DEF h1
    <3>4. Operands(op) = {<<a, "I64">>} /\ ResultType(op) = "I32"
      BY LoadNeeds DEF Needs
    <3> HIDE DEF op
    <3>5. Reads(h, op)
      BY <3>4 DEF Reads
    <3> QED
      BY <3>1, <3>4, <3>5, SolidMore DEF Defined, Done1
  <2>2. Solid(h2, lo, m + 1 + 1) /\ Gives(h2, m + 1, "I64")
    <3> HIDE DEF h1, h2
    <3> DEFINE op == LowHalf("ZeroExtend", m)
    <3>1. h2 = h1 \o <<Def(m + 1, op)>>
      BY DEF h2
    <3>4. Operands(op) = {<<m, "I32">>} /\ ResultType(op) = "I64"
      BY LowNeeds DEF Needs
    <3> HIDE DEF op
    <3>5. Reads(h1, op)
      BY <3>4, <2>1 DEF Reads
    <3> QED
      BY <3>1, <3>4, <3>5, <2>1, SolidMore DEF Defined, Done1
  <2>3. Solid(h3, lo, m + 2)
    <3> HIDE DEF h2, h3
    <3> DEFINE op == SetReg(r, m + 1)
    <3>1. h3 = h2 \o <<Effect(op)>>
      BY DEF h3
    <3>4. Operands(op) = {<<m + 1, "I64">>} /\ ResultType(op) = "none"
      BY SetNeeds DEF Needs
    <3> HIDE DEF op
    <3>5. Reads(h2, op)
      BY <3>4, <2>2, <1>0 DEF Reads
    <3> QED
      BY <3>1, <3>4, <3>5, <2>2, <1>0, SolidMore DEF Defined, Done1
  <2> HIDE DEF p, q, s
  <2> DEFINE b == <<p, q>>
             c == <<s>>
  <2>4. h2 = h \o b
    BY <1>0, AppendTwo
  <2>5. <<p, q, s>> = b \o c
    BY Tuples3, Zenon
  <2>6. IsSeq(b) /\ IsSeq(c) /\ h3 = h2 \o c
    BY TuplesAreSeqs
  <2> HIDE DEF h2, h3, b, c
  <2>7. h3 = h \o (b \o c)
    BY <1>0, <2>4, <2>6, JoinedTwice
  <2>8. h3 = h \o <<p, q, s>>
    BY <2>5, <2>7
  <2> HIDE DEF h3
  <2> QED
    BY <2>3, <2>8 DEF p, q, s
<1>2. Solid(h \o <<Def(m, LoadFrom(k, "I64", a)), Effect(SetReg(r, m))>>, lo, m + 1)
  <2> DEFINE p == Def(m, LoadFrom(k, "I64", a))
             s == Effect(SetReg(r, m))
             h1 == h \o <<p>>
             h2 == h1 \o <<s>>
  <2>1. Solid(h1, lo, m + 1) /\ Gives(h1, m, "I64")
    <3> HIDE DEF h1
    <3> DEFINE op == LoadFrom(k, "I64", a)
    <3>1. h1 = h \o <<Def(m, op)>>
      BY DEF h1
    <3>4. Operands(op) = {<<a, "I64">>} /\ ResultType(op) = "I64"
      BY LoadNeeds DEF Needs
    <3> HIDE DEF op
    <3>5. Reads(h, op)
      BY <3>4 DEF Reads
    <3> QED
      BY <3>1, <3>4, <3>5, SolidMore DEF Defined, Done1
  <2>2. Solid(h2, lo, m + 1)
    <3> HIDE DEF h1, h2
    <3> DEFINE op == SetReg(r, m)
    <3>1. h2 = h1 \o <<Effect(op)>>
      BY DEF h2
    <3>4. Operands(op) = {<<m, "I64">>} /\ ResultType(op) = "none"
      BY SetNeeds DEF Needs
    <3> HIDE DEF op
    <3>5. Reads(h1, op)
      BY <3>4, <2>1 DEF Reads
    <3> QED
      BY <3>1, <3>4, <3>5, <2>1, SolidMore DEF Defined, Done1
  <2> HIDE DEF p, s
  <2>4. h2 = h \o <<p, s>>
    BY <1>0, AppendTwo
  <2> HIDE DEF h2
  <2> QED
    BY <2>2, <2>4 DEF p, s
<1> QED
  BY <1>1, <1>2

\* The ops after the address of a store: the value to store,
LEMMA StoreValue ==
    ASSUME NEW lo \in Nat, NEW h, NEW m \in Nat, Solid(h, lo, m), NEW a, Gives(h, a, "I64"), NEW r
    PROVE  /\ LET q == h \o <<Def(m, GetReg(r)), Def(m + 1, LowHalf("Trunc", m))>>
              IN  Solid(q, lo, m + 2) /\ Gives(q, m + 1, "I32") /\ Gives(q, a, "I64")
           /\ LET q == h \o <<Def(m, GetReg(r))>> IN Solid(q, lo, m + 1) /\ Gives(q, m, "I64") /\ Gives(q, a, "I64")
<1> DEFINE p == Def(m, GetReg(r))
           s == Def(m + 1, LowHalf("Trunc", m))
           h1 == h \o <<p>>
           h2 == h1 \o <<s>>
<1>0. IsSeq(h) /\ m + 1 + 1 = m + 2 /\ m + 1 \in Nat
  BY DEF Solid, Sound
<1>1. Solid(h1, lo, m + 1) /\ Gives(h1, m, "I64") /\ Gives(h1, a, "I64")
  <2> HIDE DEF h1
  <2> DEFINE op == GetReg(r)
  <2>1. h1 = h \o <<Def(m, op)>>
    BY DEF h1
  <2>4. Operands(op) = {} /\ ResultType(op) = "I64"
    BY GetNeeds DEF Needs
  <2> HIDE DEF op
  <2>5. Reads(h, op)
    BY <2>4 DEF Reads
  <2>2. Solid(h1, lo, m + 1) /\ Gives(h1, m, "I64") /\ Keeps(h, h1)
    BY <2>1, <2>4, <2>5, SolidMore DEF Defined, Done1
  <2> QED
    BY <2>2 DEF Keeps
<1>2. Solid(h2, lo, m + 2) /\ Gives(h2, m + 1, "I32") /\ Gives(h2, a, "I64")
  <2> HIDE DEF h1, h2
  <2> DEFINE op == LowHalf("Trunc", m)
  <2>1. h2 = h1 \o <<Def(m + 1, op)>>
    BY DEF h2
  <2>4. Operands(op) = {<<m, "I64">>} /\ ResultType(op) = "I32"
    BY LowNeeds DEF Needs
  <2> HIDE DEF op
  <2>5. Reads(h1, op)
    BY <2>4, <1>1 DEF Reads
  <2>2. Solid(h2, lo, m + 1 + 1) /\ Gives(h2, m + 1, "I32") /\ Keeps(h1, h2)
    BY <2>1, <2>4, <2>5, <1>1, SolidMore DEF Defined, Done1
  <2> QED
    BY <1>0, <1>1, <2>2 DEF Keeps
<1> HIDE DEF p, s
<1>3. h2 = h \o <<p, s>>
  BY <1>0, AppendTwo
<1> HIDE DEF h1, h2
<1>4. /\ Solid(h \o <<p, s>>, lo, m + 2) /\ Gives(h \o <<p, s>>, m + 1, "I32") /\ Gives(h \o <<p, s>>, a, "I64")
      /\ Solid(h \o <<p>>, lo, m + 1) /\ Gives(h \o <<p>>, m, "I64") /\ Gives(h \o <<p>>, a, "I64")
  BY <1>1, <1>2, <1>3 DEF h1
<1> QED
  BY <1>4 DEF p, s

\* and the store itself.
LEMMA PlainStoreTail ==
    ASSUME NEW lo \in Nat, NEW h, NEW m \in Nat, Solid(h, lo, m), NEW a, Gives(h, a, "I64"),
           NEW type \in {"I32", "I64"}, NEW v, Gives(h, v, type), NEW k \in {"Store", "StoreRelease"}
    PROVE  Solid(h \o <<Effect(StoreAt(k, type, a, v))>>, lo, m)
<1> DEFINE op == StoreAt(k, type, a, v)
<1>1. Operands(op) = {<<a, "I64">>, <<v, type>>} /\ ResultType(op) = "none"
  BY StoreNeeds DEF Needs
<1> HIDE DEF op
<1>2. Reads(h, op)
  BY <1>1 DEF Reads
<1>3. Solid(h \o <<Effect(op)>>, lo, m)
  BY <1>1, <1>2, SolidMore DEF Done1
<1> QED
  BY <1>3 DEF op
LEMMA ExclusiveStoreTail ==
    ASSUME NEW lo \in Nat, NEW h, NEW m \in Nat, Solid(h, lo, m), NEW a, Gives(h, a, "I64"),
           NEW type \in {"I32", "I64"}, NEW v, Gives(h, v, type), NEW r
    PROVE  Solid(h \o <<Def(m, StoreAt("StoreExclusive", type, a, v)), Def(m + 1, LowHalf("ZeroExtend", m)),
                        Effect(SetReg(r, m + 1))>>, lo, m + 2)
<1>0. IsSeq(h) /\ m + 1 + 1 = m + 2 /\ m + 1 \in Nat
  BY DEF Solid, Sound
<1>2. QED
  <2> DEFINE op == StoreAt("StoreExclusive", type, a, v)
             p == Def(m, op)
             q == Def(m + 1, LowHalf("ZeroExtend", m))
             s == Effect(SetReg(r, m + 1))
             h1 == h \o <<p>>
             h2 == h1 \o <<q>>
             h3 == h2 \o <<s>>
  <2>1. Solid(h1, lo, m + 1) /\ Gives(h1, m, "I32")
    <3>1. Operands(op) = {<<a, "I64">>, <<v, type>>} /\ ResultType(op) = "I32"
      BY StoreNeeds DEF Needs
    <3> HIDE DEF op
    <3>2. Reads(h, op)
      BY <3>1 DEF Reads
    <3> QED
      BY <3>1, <3>2, SolidMore DEF Defined
  <2>2. Solid(h2, lo, m + 1 + 1) /\ Gives(h2, m + 1, "I64")
    <3> HIDE DEF h1, h2
    <3> DEFINE next == LowHalf("ZeroExtend", m)
    <3>1. h2 = h1 \o <<Def(m + 1, next)>>
      BY DEF h2
    <3>4. Operands(next) = {<<m, "I32">>} /\ ResultType(next) = "I64"
      BY LowNeeds DEF Needs
    <3> HIDE DEF next
    <3>5. Reads(h1, next)
      BY <3>4, <2>1 DEF Reads
    <3> QED
      BY <3>1, <3>4, <3>5, <2>1, SolidMore DEF Defined, Done1
  <2>3. Solid(h3, lo, m + 2)
    <3> HIDE DEF h2, h3
    <3> DEFINE next == SetReg(r, m + 1)
    <3>1. h3 = h2 \o <<Effect(next)>>
      BY DEF h3
    <3>4. Operands(next) = {<<m + 1, "I64">>} /\ ResultType(next) = "none"
      BY SetNeeds DEF Needs
    <3> HIDE DEF next
    <3>5. Reads(h2, next)
      BY <3>4, <2>2, <1>0 DEF Reads
    <3> QED
      BY <3>1, <3>4, <3>5, <2>2, <1>0, SolidMore DEF Defined, Done1
  <2> HIDE DEF p, q, s
  <2> DEFINE b == <<p, q>>
             c == <<s>>
  <2>4. h2 = h \o b
    BY <1>0, AppendTwo
  <2>5. <<p, q, s>> = b \o c
    BY Tuples3, Zenon
  <2>6. IsSeq(b) /\ IsSeq(c) /\ h3 = h2 \o c
    BY TuplesAreSeqs
  <2> HIDE DEF h2, h3, b, c
  <2>7. h3 = h \o (b \o c)
    BY <1>0, <2>4, <2>6, JoinedTwice
  <2>8. h3 = h \o <<p, q, s>>
    BY <2>5, <2>7
  <2> HIDE DEF h3
  <2> QED
    BY <2>3, <2>8 DEF p, q, s, op

LEMMA LoadSound ==
    ASSUME NEW i, i.k \in Loads, i.size \in Sizes, NEW n \in Nat
    PROVE  Solid(LiftData(i, n), n, n + Width(i))
<1> DEFINE h == LiftAddress(i, n)
           m == n + HeadWidth(i)
           a == m - 1
<1>1. Solid(h, n, m) /\ Len(h) = HeadWidth(i) /\ Gives(h, a, "I64") /\ m \in Nat /\ HeadWidth(i) \in {1, 3} /\ a \in Nat
  BY AddressSound
<1>2. Width(i) = HeadWidth(i) + (IF i.size = "Word" THEN 2 ELSE 1)
  BY DEF Width, Loads, Immediates
<1>4. LiftData(i, n) = LiftLoad(i, n)
  BY DEF LiftData, Loads, Jumps
<1>5. n + Len(h) - 1 = a /\ a + 1 = m /\ a + 2 = m + 1
  BY <1>1
<1>6. CASE i.size = "Word"
  <2>1. LiftLoad(i, n) = h \o <<Def(m, LoadFrom(i.k, "I32", a)), Def(m + 1, LowHalf("ZeroExtend", m)), Effect(SetReg(i.rt, m + 1))>>
    <3> HIDE DEF h, m, a
    <3>1. TypeOf(i.size) = "I32"
      BY <1>6 DEF TypeOf
    <3> QED
      BY <1>5, <1>6, <3>1 DEF LiftLoad, h
  <2>2. n + Width(i) = m + 2
    BY <1>1, <1>2, <1>6
  <2> HIDE DEF h, m, a
  <2> QED
    BY <1>1, <1>4, <2>1, <2>2, LoadTail
<1>7. CASE i.size # "Word"
  <2>1. LiftLoad(i, n) = h \o <<Def(m, LoadFrom(i.k, "I64", a)), Effect(SetReg(i.rt, m))>>
    <3> HIDE DEF h, m, a
    <3>1. TypeOf(i.size) = "I64"
      BY <1>7 DEF TypeOf
    <3> QED
      BY <1>5, <1>7, <3>1 DEF LiftLoad, h
  <2>2. n + Width(i) = m + 1
    BY <1>1, <1>2, <1>7
  <2> HIDE DEF h, m, a
  <2> QED
    BY <1>1, <1>4, <2>1, <2>2, LoadTail
<1> QED
  BY <1>6, <1>7

LEMMA StoreSound ==
    ASSUME NEW i, i.k \in {"Store", "StoreRelease", "StoreExclusive"}, i.size \in Sizes, NEW n \in Nat
    PROVE  Solid(LiftData(i, n), n, n + Width(i))
<1> DEFINE h == LiftAddress(i, n)
           m == n + HeadWidth(i)
           a == m - 1
           w == IF i.size = "Word" THEN 2 ELSE 1
           data == IF i.size = "Word" THEN <<Def(m, GetReg(i.rt)), Def(m + 1, LowHalf("Trunc", m))>>
                   ELSE <<Def(m, GetReg(i.rt))>>
           g == h \o data
           v == a + w
           type == TypeOf(i.size)
           last == IF i.k = "StoreExclusive"
                   THEN <<Def(v + 1, StoreAt(i.k, type, a, v)), Def(v + 2, LowHalf("ZeroExtend", v + 1)),
                          Effect(SetReg(i.rs, v + 2))>>
                   ELSE <<Effect(StoreAt(i.k, type, a, v))>>
<1>1. /\ Solid(h, n, m) /\ Len(h) = HeadWidth(i) /\ Gives(h, a, "I64") /\ m \in Nat /\ HeadWidth(i) \in {1, 3}
      /\ a \in Nat /\ w \in {1, 2}
  BY AddressSound
<1>2. Width(i) = HeadWidth(i) + (IF i.k = "StoreExclusive" THEN w + 2 ELSE w)
  BY DEF Width, Loads, Immediates
<1>4. LiftData(i, n) = LiftStore(i, n)
  BY DEF LiftData, Loads, Jumps
<1>5. n + Len(h) - 1 = a /\ a + 1 = m /\ a + 2 = m + 1
  BY <1>1
<1>6. Len(data) = w
  OBVIOUS
<1>7. LiftStore(i, n) = h \o data \o last
  <2> HIDE DEF m, a, w
  <2>1. LiftStore(i, n) = LET h0 == LiftAddress(i, n)
                              a0 == n + Len(h0) - 1
                              d0 == IF i.size = "Word"
                                    THEN <<Def(a0 + 1, GetReg(i.rt)), Def(a0 + 2, LowHalf("Trunc", a0 + 1))>>
                                    ELSE <<Def(a0 + 1, GetReg(i.rt))>>
                              v0 == a0 + Len(d0)
                              s0 == StoreAt(i.k, TypeOf(i.size), a0, v0)
                          IN  h0 \o d0 \o
                              IF i.k = "StoreExclusive"
                              THEN <<Def(v0 + 1, s0), Def(v0 + 2, LowHalf("ZeroExtend", v0 + 1)), Effect(SetReg(i.rs, v0 + 2))>>
                              ELSE <<Effect(s0)>>
    BY DEF LiftStore
  <2>2. data = IF i.size = "Word" THEN <<Def(a + 1, GetReg(i.rt)), Def(a + 2, LowHalf("Trunc", a + 1))>>
               ELSE <<Def(a + 1, GetReg(i.rt))>>
    BY <1>5
  <2> HIDE DEF data
  <2> QED
    BY <1>5, <1>6, <2>1, <2>2
<1>8. Solid(g, n, m + w) /\ Gives(g, v, type) /\ Gives(g, a, "I64") /\ type \in {"I32", "I64"}
  <2>1. CASE i.size = "Word"
    <3>1. data = <<Def(m, GetReg(i.rt)), Def(m + 1, LowHalf("Trunc", m))>> /\ w = 2 /\ type = "I32"
      BY <2>1 DEF TypeOf
    <3>2. v = m + 1 /\ m + w = m + 2
      BY <1>1, <3>1
    <3> HIDE DEF h, m, a, w, data, v, type
    <3>3. LET q == h \o <<Def(m, GetReg(i.rt)), Def(m + 1, LowHalf("Trunc", m))>>
          IN  Solid(q, n, m + 2) /\ Gives(q, m + 1, "I32") /\ Gives(q, a, "I64")
      BY <1>1, StoreValue
    <3> QED
      BY <3>1, <3>2, <3>3
  <2>2. CASE i.size # "Word"
    <3>1. data = <<Def(m, GetReg(i.rt))>> /\ w = 1 /\ type = "I64"
      BY <2>2 DEF TypeOf
    <3>2. v = m /\ m + w = m + 1
      BY <1>1, <3>1
    <3> HIDE DEF h, m, a, w, data, v, type
    <3>3. LET q == h \o <<Def(m, GetReg(i.rt))>> IN Solid(q, n, m + 1) /\ Gives(q, m, "I64") /\ Gives(q, a, "I64")
      BY <1>1, StoreValue
    <3> QED
      BY <3>1, <3>2, <3>3
  <2> QED
    BY <2>1, <2>2
<1>9. m + w \in Nat /\ v + 1 = m + w /\ v + 2 = m + w + 1
  BY <1>1
<1>10. CASE i.k = "StoreExclusive"
  <2> DEFINE z == m + w
  <2>1. last = <<Def(z, StoreAt("StoreExclusive", type, a, v)), Def(z + 1, LowHalf("ZeroExtend", z)), Effect(SetReg(i.rs, z + 1))>>
    <3> HIDE DEF h, m, a, w, data, v, type
    <3> QED
      BY <1>9, <1>10
  <2>2. n + Width(i) = z + 2 /\ z \in Nat
    <3>1. Width(i) = HeadWidth(i) + (w + 2)
      BY <1>2, <1>10
    <3> HIDE DEF w
    <3> QED
      BY <1>1, <3>1
  <2> HIDE DEF h, m, a, w, data, v, type, last, z, g
  <2>3. Solid(g \o <<Def(z, StoreAt("StoreExclusive", type, a, v)), Def(z + 1, LowHalf("ZeroExtend", z)),
                    Effect(SetReg(i.rs, z + 1))>>, n, z + 2)
    BY <1>8, <2>2, ExclusiveStoreTail DEF z
  <2> QED
    BY <1>4, <1>7, <2>1, <2>2, <2>3 DEF g
<1>11. CASE i.k # "StoreExclusive"
  <2> DEFINE z == m + w
  <2>1. last = <<Effect(StoreAt(i.k, type, a, v))>> /\ i.k \in {"Store", "StoreRelease"}
    BY <1>11
  <2>2. n + Width(i) = z /\ z \in Nat
    <3>1. Width(i) = HeadWidth(i) + w
      BY <1>2, <1>11
    <3> HIDE DEF w
    <3> QED
      BY <1>1, <3>1
  <2> HIDE DEF h, m, a, w, data, v, type, last, z, g
  <2>3. Solid(g \o <<Effect(StoreAt(i.k, type, a, v))>>, n, z)
    BY <1>8, <2>1, <2>2, PlainStoreTail DEF z
  <2> QED
    BY <1>4, <1>7, <2>1, <2>2, <2>3 DEF g
<1> QED
  BY <1>10, <1>11

\* Whatever an instruction lifts to from the free value n on is sound, and defines n up to n + Width(i) - 1.
LEMMA LiftSound ==
    ASSUME NEW i, InstOk(i), NEW n \in Nat
    PROVE  Solid(LiftData(i, n), n, n + Width(i)) /\ Width(i) \in Nat
<1>1. CASE i.k = "MovZ"
  <2>1. Width(i) = 1
    BY <1>1 DEF Width, Immediates, Loads
  <2> QED
    BY <1>1, <2>1, MovZSound
<1>2. CASE i.k \in Immediates \cup {"LogicalReg"}
  <2>1. Width(i) = 3
    BY <1>2 DEF Width, Immediates, Loads
  <2> QED
    BY <1>2, <2>1, ArithmeticSound
<1>3. CASE i.k \in Loads
  <2>1. i.size \in Sizes
    BY <1>3 DEF InstOk, Accesses
  <2>2. Width(i) \in Nat
    BY <1>3, <2>1 DEF Width, Immediates, Loads, HeadWidth
  <2> QED
    BY <1>3, <2>1, <2>2, LoadSound
<1>4. CASE i.k \in {"Store", "StoreRelease", "StoreExclusive"}
  <2>1. i.size \in Sizes
    BY <1>4 DEF InstOk, Accesses
  <2>2. Width(i) \in Nat
    BY <1>4, <2>1 DEF Width, Immediates, Loads, HeadWidth
  <2> QED
    BY <1>4, <2>1, <2>2, StoreSound
<1>5. CASE i.k \in Jumps \cup {"Svc"}
  <2>1. LiftData(i, n) = <<>> /\ Width(i) = 0
    BY <1>5 DEF LiftData, Width, Jumps, Loads, Immediates
  <2> QED
    BY <2>1, NoneSound
<1>6. CASE i.k \in DataKinds
  <2>1. LiftData(i, n) = <<Effect(i)>> /\ Width(i) = 0
    BY <1>6 DEF LiftData, Width, Jumps, Loads, Immediates, DataKinds
  <2>2. Operands(i) = {} /\ ResultType(i) = "none"
    BY <1>6 DEF Operands, ResultType, DataKinds
  <2>3. Reads(<<>>, i)
    BY <2>2 DEF Reads
  <2>4. Solid(<<>> \o <<Effect(i)>>, n, n)
    BY <2>2, <2>3, NoneSound, SolidMore DEF Done1
  <2>5. <<Effect(i)>> = <<>> \o <<Effect(i)>>
    BY Tuples1, Zenon
  <2> QED
    BY <2>1, <2>4, <2>5
<1> QED
  BY <1>1, <1>2, <1>3, <1>4, <1>5, <1>6 DEF InstOk, Accesses

-----------------------------------------------------------------------------
(* A block's ops: every value counted once, and read after its definition. *)

\* A sound list that defines all of 0 .. w - 1 has w definitions.
LEMMA DefinesWidth ==
    ASSUME NEW a, NEW w \in Nat, Solid(a, 0, w)
    PROVE  Defines(a) = w
<1> DEFINE D == {s \in DOMAIN a : a[s].result # NoValue}
           m == Len(a)
           f == [s \in D |-> a[s].result]
<1>1. DOMAIN a = 1 .. m /\ m \in Nat
  BY DEF Solid, Sound, IsSeq
<1>2. \A i \in 1 .. m : SoundAt(a, i, 0, w)
  BY DEF Solid, Sound
<1>3. D \subseteq 1 .. m /\ IsFiniteSet(1 .. m)
  BY <1>1, FS_Interval
<1>4. IsFiniteSet(D)
  BY <1>3, FS_Subset
<1> HIDE DEF m
<1>5. f \in [D -> 0 .. w - 1]
  BY <1>1, <1>2 DEF SoundAt
<1>6. \A s, t \in D : f[s] = f[t] => s = t
  <2>1. ASSUME NEW s \in D, NEW t \in D, s < t PROVE f[s] # f[t]
    <3>1. s \in 1 .. t - 1 /\ t \in 1 .. m
      BY <1>1, <2>1
    <3>2. SoundAt(a, t, 0, w) /\ a[t].result # NoValue
      BY <1>2, <3>1
    <3>3. a[s].result # a[t].result
      BY <3>1, <3>2 DEF SoundAt
    <3> QED
      BY <3>3
  <2>2. \A s, t \in D : s < t \/ t < s \/ s = t
    BY <1>3, <1>1
  <2> HIDE DEF f, D
  <2> QED
    BY <2>1, <2>2
<1>7. \A v \in 0 .. w - 1 : \E s \in D : f[s] = v
  <2> SUFFICES ASSUME NEW v \in 0 .. w - 1 PROVE \E s \in D : f[s] = v
    OBVIOUS
  <2>1. PICK i \in 1 .. Len(a) : a[i].result = v
    BY DEF Solid, Covers
  <2>2. i \in D
    BY <1>1, <2>1 DEF NoValue, m
  <2> QED
    BY <2>1, <2>2
<1> HIDE DEF f
<1>8. f \in Bijection(D, 0 .. w - 1)
  <2> HIDE DEF D
  <2>1. DOMAIN f = D
    BY <1>5
  <2> QED
    BY <1>5, <1>6, <1>7, <2>1 DEF Bijection, Injection, Surjection, IsInjective
<1>9. ExistsBijection(D, 0 .. w - 1)
  BY <1>8 DEF ExistsBijection
<1>10. Cardinality(0 .. w - 1) = Cardinality(D)
  BY <1>4, <1>9, FS_Bijection
<1>11. 0 \in Int /\ w - 1 \in Int
  OBVIOUS
<1>12. Cardinality(0 .. w - 1) = IF 0 > w - 1 THEN 0 ELSE w - 1 - 0 + 1
  BY <1>11, FS_Interval
<1>13. Cardinality(0 .. w - 1) = w
  BY <1>12
<1> QED
  BY <1>10, <1>13 DEF Defines

\* The counter of lift_data grows by what each instruction defines.
LEMMA CountsGrow ==
    ASSUME NEW prog, NEW n \in Nat, n = Len(prog), NEW i \in 1 .. n, InstOk(prog[i])
    PROVE  /\ ValuesBefore(prog)[1] = 0
           /\ ValuesBefore(prog)[i + 1] = ValuesBefore(prog)[i] + Width(prog[i]) /\ Width(prog[i]) \in Nat
<1> DEFINE g == ValuesBefore(prog)
<1>0. \E h : CountsIs(prog, n, h)
  BY CountsExist
<1>1. \E h : h = [j \in 1 .. Len(prog) + 1 |-> IF j = 1 THEN 0 ELSE h[j - 1] + Defines(LiftData(prog[j - 1], 0))]
  BY <1>0, Zenon DEF CountsIs
<1>2. g = [j \in 1 .. Len(prog) + 1 |-> IF j = 1 THEN 0 ELSE g[j - 1] + Defines(LiftData(prog[j - 1], 0))]
  BY <1>1, Zenon DEF ValuesBefore
<1> HIDE DEF g
<1>3. 1 \in 1 .. n + 1 /\ i + 1 \in 1 .. n + 1 /\ i + 1 # 1 /\ i + 1 - 1 = i
  OBVIOUS
<1>4. g[1] = 0 /\ g[i + 1] = g[i + 1 - 1] + Defines(LiftData(prog[i + 1 - 1], 0))
  BY <1>2, <1>3
<1>5. Solid(LiftData(prog[i], 0), 0, 0 + Width(prog[i])) /\ Width(prog[i]) \in Nat
  BY LiftSound
<1>6. Defines(LiftData(prog[i], 0)) = Width(prog[i])
  <2>1. 0 + Width(prog[i]) = Width(prog[i])
    BY <1>5
  <2> QED
    BY <1>5, <2>1, DefinesWidth
<1> QED
  BY <1>3, <1>4, <1>5, <1>6 DEF g

\* The address of an instruction changes nothing of that.
LEMMA PlacedSound ==
    ASSUME NEW a, NEW lo, NEW hi, Sound(a, lo, hi), NEW at
    PROVE  Sound(Placed(a, at), lo, hi)
<1> DEFINE p == Placed(a, at)
<1>1. IsSeq(p) /\ Len(p) = Len(a) /\ \A j \in DOMAIN a : p[j].op = a[j].op /\ p[j].result = a[j].result
  BY PlacedOps DEF Sound
<1>2. DOMAIN a = 1 .. Len(a) /\ Len(a) \in Nat
  BY DEF Sound, IsSeq
<1> HIDE DEF p
<1>3. ASSUME NEW i \in 1 .. Len(p) PROVE SoundAt(p, i, lo, hi)
  <2>1. SoundAt(a, i, lo, hi) /\ i \in 1 .. Len(a)
    BY <1>1 DEF Sound
  <2>2. p[i].op = a[i].op /\ p[i].result = a[i].result
    BY <1>1, <1>2, <2>1
  <2>3. \A j \in 1 .. i - 1 : p[j].op = a[j].op /\ p[j].result = a[j].result
    <3>1. \A j \in 1 .. i - 1 : j \in DOMAIN a
      BY <1>2, <2>1
    <3> QED
      BY <1>1, <3>1
  <2>4. \A v, type : GivenBy(a, i, v, type) => GivenBy(p, i, v, type)
    BY <2>3 DEF GivenBy
  <2> QED
    BY <2>1, <2>2, <2>3, <2>4 DEF SoundAt
<1> QED
  BY <1>1, <1>3 DEF Sound, p

\* Sound lists laid end to end, each from where the last one stopped.
LEMMA SoundParts ==
    ASSUME NEW seqs, NEW n \in Nat \ {0}, Len(seqs) = n, NEW c, \A k \in 1 .. n + 1 : c[k] \in Nat,
           \A k \in 1 .. n : c[k] <= c[k + 1] /\ Sound(seqs[k], c[k], c[k + 1])
    PROVE  FlattenSeq(seqs) = Joined(seqs, n) /\ Sound(Joined(seqs, n), c[1], c[n + 1]) /\ c[1] <= c[n + 1]
<1>1. /\ FlattenSeq(seqs) = Joined(seqs, n) /\ Joined(seqs, 1) = seqs[1]
      /\ \A k \in 2 .. n : Joined(seqs, k) = Joined(seqs, k - 1) \o seqs[k]
  BY Flattens DEF Joined
<1> DEFINE T == {k \in 0 .. n : k # 0 => Sound(Joined(seqs, k), c[1], c[k + 1]) /\ c[1] <= c[k + 1]}
<1>2. 0 \in T
  OBVIOUS
<1>3. ASSUME NEW k \in 1 .. n, k - 1 \in T PROVE k \in T
  <2>1. k \in 0 .. n /\ c[k] \in Nat /\ c[k + 1] \in Nat /\ c[1] \in Nat /\ k - 1 + 1 = k
    OBVIOUS
  <2>2. CASE k = 1
    BY <1>1, <2>1, <2>2
  <2>3. CASE k # 1
    <3>1. k \in 2 .. n /\ k - 1 # 0
      BY <2>3
    <3>2. Sound(Joined(seqs, k - 1), c[1], c[k]) /\ c[1] <= c[k]
      BY <1>3, <2>1, <3>1
    <3>3. Sound(Joined(seqs, k - 1) \o seqs[k], c[1], c[k + 1])
      BY <2>1, <3>2, SoundJoined
    <3>4. c[1] <= c[k + 1]
      <4>1. c[k] <= c[k + 1]
        OBVIOUS
      <4> QED
        BY <2>1, <3>2, <4>1
    <3> QED
      BY <1>1, <2>1, <3>1, <3>3, <3>4
  <2> QED
    BY <2>2, <2>3
<1>4. n \in T
  <2> HIDE DEF T
  <2>1. \A k \in 0 .. n : k \in T
    BY <1>2, <1>3, Upwards
  <2> QED
    BY <2>1
<1> QED
  BY <1>1, <1>4

\* Dropping flag settings takes no definition away.
LEMMA DeadFlagsSound ==
    ASSUME NEW a, NEW lo \in Nat, NEW hi \in Nat, Sound(a, lo, hi)
    PROVE  /\ Sound(WithoutDeadFlags(a), lo, hi)
           /\ Len(a) = 0 => Len(WithoutDeadFlags(a)) = 0
           /\ Len(a) # 0 => Len(WithoutDeadFlags(a)) # 0 /\ WithoutDeadFlags(a)[1] = a[1]
<1> DEFINE m == Len(a)
           keep == {i \in DOMAIN a : IsSetFlags(a[i]) => \A j \in i + 1 .. Len(a) : ~IsSetFlags(a[j])}
           kept == Ascending(keep, m)
           d == WithoutDeadFlags(a)
<1>1. DOMAIN a = 1 .. m /\ m \in Nat /\ \A i \in 1 .. m : SoundAt(a, i, lo, hi)
  BY DEF Sound, IsSeq
<1>2. Ordered(kept, keep, m)
  BY <1>1, AscendingIs
<1>3. d = [i \in DOMAIN kept |-> a[kept[i]]]
  BY DEF WithoutDeadFlags, Only
<1>4. \A j \in 1 .. m : a[j].result # NoValue => j \in keep
  <2> SUFFICES ASSUME NEW j \in 1 .. m, a[j].result # NoValue PROVE ~IsSetFlags(a[j])
    BY <1>1
  <2>1. ResultType(a[j].op) # "none"
    BY <1>1 DEF SoundAt
  <2> QED
    BY <2>1 DEF ResultType, IsSetFlags
<1>5. m # 0 => 1 \in keep
  <2> SUFFICES ASSUME m # 0 PROVE ~IsSetFlags(a[1])
    BY <1>1
  <2>1. 1 \in 1 .. m
    BY <1>1
  <2>2. SoundAt(a, 1, lo, hi)
    BY <1>1, <2>1
  <2>3. \A use \in Operands(a[1].op) : FALSE
    BY <2>2 DEF SoundAt, GivenBy
  <2>4. IsSetFlags(a[1]) => <<a[1].op.lhs, "I64">> \in Operands(a[1].op)
    BY DEF Operands, IsSetFlags
  <2> QED
    BY <2>3, <2>4
<1> HIDE DEF m, keep, kept, d
<1>6. /\ kept \in Seq(1 .. m) /\ DOMAIN kept = 1 .. Len(kept) /\ Len(kept) \in Nat
      /\ \A b, c \in 1 .. Len(kept) : b < c => kept[b] < kept[c]
      /\ \A x \in 1 .. m : x \in keep <=> \E c \in 1 .. Len(kept) : kept[c] = x
      /\ \A c \in 1 .. Len(kept) : kept[c] \in 1 .. m
  BY <1>1, <1>2 DEF Ordered
<1>7. Len(d) = Len(kept) /\ DOMAIN d = 1 .. Len(kept) /\ \A i \in 1 .. Len(kept) : d[i] = a[kept[i]]
  BY <1>3, <1>6
<1>8. ASSUME NEW i \in 1 .. Len(d) PROVE SoundAt(d, i, lo, hi)
  <2>1. i \in 1 .. Len(kept) /\ d[i] = a[kept[i]] /\ kept[i] \in 1 .. m
    BY <1>6, <1>7
  <2>2. SoundAt(a, kept[i], lo, hi)
    BY <1>1, <2>1
  <2>3. ASSUME NEW v, NEW type, GivenBy(a, kept[i], v, type) PROVE GivenBy(d, i, v, type)
    <3>1. PICK j \in 1 .. kept[i] - 1 : a[j].result = v /\ ResultType(a[j].op) = type /\ v # NoValue
      BY <2>3 DEF GivenBy
    <3>2. j \in 1 .. m
      BY <1>1, <2>1
    <3>3. PICK c \in 1 .. Len(kept) : kept[c] = j
      BY <1>4, <1>6, <3>1, <3>2
    <3>4. c \in 1 .. i - 1
      <4>1. kept[c] < kept[i] /\ c \in Nat /\ i \in Nat
        BY <2>1, <3>3
      <4>2. c # i
        BY <4>1, <2>1
      <4>3. ~(i < c)
        BY <4>1, <1>6, <2>1
      <4> QED
        BY <4>1, <4>2, <4>3
    <3>5. d[c] = a[j]
      BY <1>7, <3>3
    <3> QED
      BY <3>1, <3>4, <3>5 DEF GivenBy
  <2>4. ASSUME a[kept[i]].result # NoValue, NEW j \in 1 .. i - 1 PROVE d[j].result # d[i].result
    <3>1. j \in 1 .. Len(kept) /\ j < i
      BY <1>6, <2>1
    <3>2. kept[j] \in 1 .. kept[i] - 1 /\ d[j] = a[kept[j]]
      BY <1>6, <1>7, <2>1, <3>1
    <3>3. a[kept[j]].result # a[kept[i]].result
      BY <2>2, <2>4, <3>2 DEF SoundAt
    <3> QED
      BY <2>1, <3>2, <3>3
  <2> QED
    BY <2>1, <2>2, <2>3, <2>4 DEF SoundAt
<1>9. IsSeq(d)
  <2>1. d \in Seq({a[x] : x \in 1 .. m})
    BY <1>3, <1>6
  <2> QED
    BY <2>1 DEF IsSeq
<1>10. Sound(d, lo, hi)
  BY <1>8, <1>9 DEF Sound
<1>11. m = 0 => Len(kept) = 0
  <2> SUFFICES ASSUME m = 0, Len(kept) # 0 PROVE FALSE
    OBVIOUS
  <2>1. kept[1] \in 1 .. m
    BY <1>6
  <2> QED
    BY <2>1
<1>12. m # 0 => Len(kept) # 0 /\ kept[1] = 1
  <2> SUFFICES ASSUME m # 0 PROVE Len(kept) # 0 /\ kept[1] = 1
    OBVIOUS
  <2>1. 1 \in 1 .. m
    BY <1>1
  <2>2. PICK c \in 1 .. Len(kept) : kept[c] = 1
    BY <1>5, <1>6, <2>1
  <2>3. 1 \in 1 .. Len(kept) /\ kept[1] \in 1 .. m
    BY <1>6, <2>2
  <2>4. 1 < c => kept[1] < kept[c]
    BY <1>6, <2>3
  <2>5. c = 1
    BY <2>2, <2>3, <2>4, <1>1
  <2> QED
    BY <2>2, <2>3, <2>5
<1>13. m # 0 => Len(d) # 0 /\ d[1] = a[1]
  <2> SUFFICES ASSUME m # 0 PROVE Len(d) # 0 /\ d[1] = a[1]
    OBVIOUS
  <2>1. 1 \in 1 .. Len(kept)
    BY <1>6, <1>12
  <2> QED
    BY <1>7, <1>12, <2>1
<1> QED
  BY <1>7, <1>10, <1>11, <1>13 DEF d, m

\* Only an instruction that ends its block lifts to nothing.
LEMMA LiftsToSomething ==
    ASSUME NEW i, InstOk(i), ~EndsBlock(i), NEW n \in Nat
    PROVE  Len(LiftData(i, n)) # 0
<1>1. Solid(LiftData(i, n), n, n + Width(i)) /\ Width(i) \in Nat
  BY LiftSound
<1>2. CASE i.k \in DataKinds
  <2>1. LiftData(i, n) = <<Effect(i)>>
    BY <1>2 DEF LiftData, Jumps, Loads, DataKinds
  <2> QED
    BY <2>1
<1>3. CASE i.k \notin DataKinds
  <2>1. Width(i) # 0
    BY <1>3 DEF Width, HeadWidth, InstOk, EndsBlock, Loads, Immediates, Jumps, Accesses
  <2>2. n \in n .. n + Width(i) - 1
    BY <1>1, <2>1
  <2>3. \E j \in 1 .. Len(LiftData(i, n)) : LiftData(i, n)[j].result = n
    BY <1>1, <2>2 DEF Solid, Covers
  <2> QED
    BY <2>3
<1> QED
  BY <1>2, <1>3

\* A program of n instructions, none of them malformed.
Listing(prog, n) == n = Len(prog) /\ DOMAIN prog = 1 .. n /\ \A i \in 1 .. n : InstOk(prog[i])
\* The values lifted before the instruction after block b.
CountTo(prog, base, b) == ValuesBefore(prog)[EndAt(prog, base, b) + 1]
CodeAt(prog, base, b) == FlattenSeq(CodeOf(prog, base, b))

\* Each instruction of a listing is lifted soundly.
LEMMA LiftedSound ==
    ASSUME NEW prog, NEW n \in Nat \ {0}, Listing(prog, n), NEW base, NEW i \in 1 .. n
    PROVE  /\ ValuesBefore(prog)[i] \in Nat /\ ValuesBefore(prog)[i + 1] \in Nat
           /\ ValuesBefore(prog)[i] <= ValuesBefore(prog)[i + 1]
           /\ Sound(LiftedAt(prog, base, i), ValuesBefore(prog)[i], ValuesBefore(prog)[i + 1])
           /\ Len(LiftedAt(prog, base, i)) = Len(LiftData(prog[i], ValuesBefore(prog)[i]))
           /\ Len(LiftedAt(prog, base, i)) # 0 => LiftedAt(prog, base, i)[1].at = PcOf(base, i)
<1> DEFINE c == ValuesBefore(prog)
           data == LiftData(prog[i], c[i])
<1>1. n = Len(prog) /\ n \in Nat /\ i \in 1 .. n + 1 /\ i + 1 \in 1 .. n + 1 /\ InstOk(prog[i])
  BY DEF Listing
<1>2. c[i] \in Nat /\ c[i + 1] \in Nat
  BY <1>1, CountsNat
<1>3. c[i + 1] = c[i] + Width(prog[i]) /\ Width(prog[i]) \in Nat
  BY <1>1, CountsGrow
<1> HIDE DEF c
<1>4. Solid(data, c[i], c[i] + Width(prog[i]))
  BY <1>1, <1>2, LiftSound
<1>5. Sound(data, c[i], c[i + 1])
  BY <1>3, <1>4 DEF Solid
<1>6. LiftedAt(prog, base, i) = Placed(data, PcOf(base, i))
  BY DEF LiftedAt, c
<1> HIDE DEF data
<1>7. Sound(Placed(data, PcOf(base, i)), c[i], c[i + 1])
  BY <1>5, PlacedSound
<1>8. IsSeq(data) /\ DOMAIN data = 1 .. Len(data) /\ Len(data) \in Nat
  BY <1>5 DEF Sound, IsSeq
<1>9. Len(Placed(data, PcOf(base, i))) = Len(data)
  BY <1>8, PlacedOps
<1>10. Len(data) # 0 => Placed(data, PcOf(base, i))[1].at = PcOf(base, i)
  BY <1>8 DEF Placed
<1>11. c[i] <= c[i + 1]
  BY <1>2, <1>3
<1> QED
  BY <1>2, <1>6, <1>7, <1>9, <1>10, <1>11 DEF c, data

\* So is each block, which begins with the address of its first instruction.
LEMMA BlockSound ==
    ASSUME NEW prog, NEW n \in Nat \ {0}, Listing(prog, n), NEW base, NEW b \in DOMAIN StartsOf(prog, base)
    PROVE  LET a == CodeAt(prog, base, b)
               s == StartsOf(prog, base)[b]
           IN  /\ Sound(a, ValuesBefore(prog)[s], CountTo(prog, base, b))
               /\ ValuesBefore(prog)[s] \in Nat /\ CountTo(prog, base, b) \in Nat
               /\ ValuesBefore(prog)[s] <= CountTo(prog, base, b)
               /\ Len(a) # 0 => a[1].at = PcOf(base, s)
               /\ Len(a) = 0 => EndAt(prog, base, b) = s
<1> DEFINE s == StartsOf(prog, base)[b]
           e == EndAt(prog, base, b)
           size == SizeOf(prog, base, b)
           parts == CodeOf(prog, base, b)
           v == ValuesBefore(prog)
           c == [k \in 1 .. size + 1 |-> v[s + k - 1]]
<1>0. n = Len(prog) /\ DOMAIN prog = 1 .. n /\ (\A i \in 1 .. n : InstOk(prog[i]))
  BY DEF Listing
<1>1. s \in 1 .. n /\ e \in s .. n /\ \A i \in s .. e - 1 : ~EndsBlock(prog[i])
  BY <1>0, BlocksShaped DEF BlockShape
<1>2. size = e - s + 1
  BY DEF SizeOf
<1>3. /\ size \in Nat \ {0} /\ Len(parts) = size
      /\ \A k \in 1 .. size : parts[k] = LiftedAt(prog, base, s + k - 1) /\ s + k - 1 \in 1 .. n
  BY <1>0, CodeFine
<1>4. \A i \in 1 .. n : /\ v[i] \in Nat /\ v[i + 1] \in Nat /\ v[i] <= v[i + 1]
                        /\ Sound(LiftedAt(prog, base, i), v[i], v[i + 1])
                        /\ Len(LiftedAt(prog, base, i)) = Len(LiftData(prog[i], v[i]))
                        /\ Len(LiftedAt(prog, base, i)) # 0 => LiftedAt(prog, base, i)[1].at = PcOf(base, i)
  BY LiftedSound
<1> HIDE DEF s, e, size, parts, v
<1>5. \A k \in 1 .. size : c[k] <= c[k + 1] /\ Sound(parts[k], c[k], c[k + 1]) /\ c[k] \in Nat /\ c[k + 1] \in Nat
  <2> SUFFICES ASSUME NEW k \in 1 .. size
               PROVE  c[k] <= c[k + 1] /\ Sound(parts[k], c[k], c[k + 1]) /\ c[k] \in Nat /\ c[k + 1] \in Nat
    OBVIOUS
  <2>1. k \in 1 .. size + 1 /\ k + 1 \in 1 .. size + 1 /\ s + (k + 1) - 1 = s + k - 1 + 1
    BY <1>1, <1>3
  <2>2. c[k] = v[s + k - 1] /\ c[k + 1] = v[s + k - 1 + 1]
    BY <2>1
  <2> HIDE DEF c
  <2> QED
    BY <1>3, <1>4, <2>2
<1>6. \A k \in 1 .. size + 1 : c[k] \in Nat
  <2> SUFFICES ASSUME NEW k \in 1 .. size + 1 PROVE c[k] \in Nat
    OBVIOUS
  <2> HIDE DEF c
  <2>1. k \in 1 .. size \/ (k = (size - 0) + 1 /\ size \in 1 .. size)
    BY <1>3
  <2> QED
    BY <1>5, <2>1
<1>7. c[1] = v[s] /\ c[size + 1] = v[e + 1]
  <2>1. 1 \in 1 .. size + 1 /\ size + 1 \in 1 .. size + 1 /\ s + 1 - 1 = s /\ s + (size + 1) - 1 = e + 1
    BY <1>1, <1>2, <1>3
  <2> QED
    BY <2>1
<1> HIDE DEF c
<1>8. /\ FlattenSeq(parts) = Joined(parts, size) /\ Sound(Joined(parts, size), c[1], c[size + 1])
      /\ c[1] <= c[size + 1]
  BY <1>3, <1>5, <1>6, SoundParts
<1>9. \A k \in 1 .. size : Fine(parts[k])
  BY <1>0, CodeFine DEF parts, size
<1> DEFINE a == Joined(parts, size)
<1>10. 1 \in 1 .. size /\ s + 1 - 1 = s /\ parts[1] = LiftedAt(prog, base, s)
  <2>1. 1 \in 1 .. size /\ s + 1 - 1 = s
    BY <1>1, <1>3
  <2> QED
    BY <1>3, <2>1
<1>11. Len(parts[1]) # 0 => Len(a) # 0 /\ a[1] = parts[1][1]
  <2> SUFFICES ASSUME Len(parts[1]) # 0 PROVE Len(a) # 0 /\ a[1] = parts[1][1]
    OBVIOUS
  <2> DEFINE T == {k \in 0 .. size : k # 0 => IsSeq(Joined(parts, k)) /\ Len(Joined(parts, k)) # 0 /\ Joined(parts, k)[1] = parts[1][1]}
  <2>1. /\ Joined(parts, 1) = parts[1]
        /\ \A k \in 2 .. size : Joined(parts, k) = Joined(parts, k - 1) \o parts[k]
    BY <1>3, Flattens DEF Joined
  <2>2. \A k \in 1 .. size : IsSeq(parts[k])
    BY <1>5 DEF Sound
  <2>3. 0 \in T
    BY <1>3
  <2>4. ASSUME NEW k \in 1 .. size, k - 1 \in T PROVE k \in T
    <3>1. CASE k = 1
      BY <2>1, <2>2, <3>1
    <3>2. CASE k # 1
      <4> DEFINE p == Joined(parts, k - 1)
      <4>1. k \in 2 .. size /\ k - 1 # 0 /\ k \in 0 .. size
        BY <3>2
      <4>2. IsSeq(p) /\ Len(p) # 0 /\ p[1] = parts[1][1]
        BY <2>4, <4>1
      <4> HIDE DEF p
      <4> DEFINE q == parts[k]
      <4>6. IsSeq(q)
        BY <2>2
      <4> HIDE DEF q
      <4>3. /\ IsSeq(p \o q) /\ Len(p) \in Nat /\ Len(q) \in Nat
            /\ Len(p \o q) = Len(p) + Len(q)
            /\ \A i \in 1 .. Len(p) : (p \o q)[i] = p[i]
        BY <4>2, <4>6, SeqParts
      <4>4. 1 \in 1 .. Len(p)
        BY <4>2, <4>3
      <4>5. Joined(parts, k) = p \o q
        BY <2>1, <4>1 DEF p, q
      <4>7. IsSeq(p \o q) /\ Len(p \o q) # 0 /\ (p \o q)[1] = parts[1][1]
        BY <4>2, <4>3, <4>4
      <4> QED
        BY <4>1, <4>5, <4>7
    <3> QED
      BY <3>1, <3>2
  <2>5. size \in T
    <3> HIDE DEF T
    <3>1. \A k \in 0 .. size : k \in T
      BY <1>3, <2>3, <2>4, Upwards
    <3> QED
      BY <1>3, <3>1
  <2> QED
    BY <1>3, <2>5
<1>12. Len(parts[1]) = 0 => s = e
  <2> SUFFICES ASSUME Len(parts[1]) = 0, s # e PROVE FALSE
    OBVIOUS
  <2>1. s \in s .. e - 1
    BY <1>1
  <2>2. ~EndsBlock(prog[s]) /\ InstOk(prog[s]) /\ v[s] \in Nat
    BY <1>0, <1>1, <1>4, <2>1
  <2>3. Len(LiftData(prog[s], v[s])) # 0
    BY <2>2, LiftsToSomething
  <2> QED
    BY <1>1, <1>4, <1>10, <2>3
<1>13. Len(a) # 0 => a[1].at = PcOf(base, s)
  <2>1. CASE Len(parts[1]) # 0
    BY <1>1, <1>4, <1>10, <1>11, <2>1
  <2>2. CASE Len(parts[1]) = 0
    <3>1. size = 1
      BY <1>1, <1>2, <1>12, <2>2
    <3>2. a = parts[1]
      BY <1>3, <3>1, Flattens DEF Joined
    <3> QED
      BY <2>2, <3>2
  <2> QED
    BY <2>1, <2>2
<1>14. Len(a) = 0 => e = s
  BY <1>11, <1>12
<1> HIDE DEF a
<1>15. CodeAt(prog, base, b) = a /\ CountTo(prog, base, b) = v[e + 1]
  BY <1>8 DEF a, CodeAt, CountTo, parts, v, e
<1>16. v[s] \in Nat /\ v[e + 1] \in Nat /\ v[s] <= v[e + 1] /\ Sound(a, v[s], v[e + 1])
  <2>1. c[1] \in Nat /\ c[size + 1] \in Nat
    <3>1. 1 \in 1 .. size + 1 /\ size + 1 \in 1 .. size + 1
      BY <1>3
    <3> QED
      BY <1>6, <3>1
  <2> QED
    BY <1>7, <1>8, <2>1 DEF a
<1> QED
  BY <1>13, <1>14, <1>15, <1>16 DEF s, v, e

-----------------------------------------------------------------------------
(* What Verify accepts, and what a lifted function's blocks lay out.       *)

\* Blocks of sound code laid end to end, with an ascending address each and no way out.
Laid(f, len, insts, term, at, c, s, base) ==
    /\ f.blocks = [b \in 1 .. len |-> [insts |-> insts[b], term |-> term[b], at |-> at[b]]]
    /\ (\A b \in 1 .. len + 1 : c[b] \in Nat) /\ c[1] = 0 /\ c[len + 1] = f.values
    /\ \A b \in 1 .. len : c[b] <= c[b + 1] /\ Sound(insts[b], c[b], c[b + 1])
    /\ (\A b \in 1 .. len : s[b] \in Nat) /\ (\A b, d \in 1 .. len : b < d => s[b] < s[d]) /\ s[1] = 1
    /\ f.entry = base
    /\ \A b \in 1 .. len : IF Len(insts[b]) = 0 THEN at[b] = PcOf(base, s[b]) ELSE insts[b][1].at = PcOf(base, s[b])
    /\ \A b \in 1 .. len : term[b].k # "Guard" /\ \A t \in Successors(term[b]) : t < len

\* The verifier accepts them.
LEMMA VerifyHolds ==
    ASSUME NEW f, NEW len \in Nat \ {0}, NEW insts, NEW term, NEW at, NEW c, NEW s, NEW base \in Nat,
           Laid(f, len, insts, term, at, c, s, base)
    PROVE  /\ Verify(f) /\ f.entry = base
           /\ DOMAIN f.blocks = 1 .. len /\ Len(f.blocks) = len
           /\ \A b \in DOMAIN f.blocks : EntryAddress(f.blocks[b]) \in Nat
<1>0. /\ f.blocks = [b \in 1 .. len |-> [insts |-> insts[b], term |-> term[b], at |-> at[b]]]
      /\ (\A b \in 1 .. len + 1 : c[b] \in Nat) /\ c[1] = 0 /\ c[len + 1] = f.values
      /\ \A b \in 1 .. len : c[b] <= c[b + 1] /\ Sound(insts[b], c[b], c[b + 1])
      /\ (\A b \in 1 .. len : s[b] \in Nat) /\ (\A b, d \in 1 .. len : b < d => s[b] < s[d]) /\ s[1] = 1
      /\ f.entry = base
      /\ \A b \in 1 .. len : IF Len(insts[b]) = 0 THEN at[b] = PcOf(base, s[b]) ELSE insts[b][1].at = PcOf(base, s[b])
      /\ \A b \in 1 .. len : term[b].k # "Guard" /\ \A t \in Successors(term[b]) : t < len
  BY DEF Laid
<1>1. DOMAIN f.blocks = 1 .. len /\ Len(f.blocks) = len
  BY <1>0
<1>2. \A b \in 1 .. len : f.blocks[b] = [insts |-> insts[b], term |-> term[b], at |-> at[b]]
  BY <1>0
<1>3. \A b \in 1 .. len : EntryAddress(f.blocks[b]) = PcOf(base, s[b])
  <2> SUFFICES ASSUME NEW b \in 1 .. len PROVE EntryAddress(f.blocks[b]) = PcOf(base, s[b])
    OBVIOUS
  <2> DEFINE a == insts[b]
             block == f.blocks[b]
  <2>1. block.insts = a /\ block.at = at[b]
    BY <1>0, <1>2
  <2>2. IsSeq(a)
    BY <1>0 DEF Sound
  <2>3. IF Len(a) = 0 THEN at[b] = PcOf(base, s[b]) ELSE a[1].at = PcOf(base, s[b])
    BY <1>0
  <2> HIDE DEF a, block
  <2>4. a = <<>> <=> Len(a) = 0
    BY <2>2 DEF IsSeq
  <2>5. EntryAddress(block) = IF a = <<>> THEN at[b] ELSE a[1].at
    BY <2>1 DEF EntryAddress
  <2> QED
    BY <2>3, <2>4, <2>5 DEF block
<1>4. f.blocks # <<>>
  BY <1>1
<1>5. f.entry = EntryAddress(f.blocks[1])
  <2>1. PcOf(base, 1) = base /\ 1 \in 1 .. len
    BY DEF PcOf
  <2> QED
    BY <1>0, <1>3, <2>1
<1>6. \A b, d \in DOMAIN f.blocks : EntryAddress(f.blocks[b]) = EntryAddress(f.blocks[d]) => b = d
  <2> SUFFICES ASSUME NEW b \in 1 .. len, NEW d \in 1 .. len, PcOf(base, s[b]) = PcOf(base, s[d]) PROVE b = d
    BY <1>1, <1>3
  <2>1. s[b] \in Nat /\ s[d] \in Nat
    BY <1>0
  <2>2. s[b] = s[d]
    <3> DEFINE x == s[b]
               y == s[d]
    <3>1. x \in Nat /\ y \in Nat /\ base + 4 * (x - 1) = base + 4 * (y - 1)
      BY <2>1 DEF PcOf
    <3> HIDE DEF x, y
    <3>2. x = y
      BY <3>1
    <3> QED
      BY <3>2 DEF x, y
  <2>3. ~(b < d) /\ ~(d < b)
    BY <1>0, <2>1, <2>2
  <2> QED
    BY <2>3
<1>7. \A b \in DOMAIN f.blocks : /\ \A t \in Successors(f.blocks[b].term) : t < Len(f.blocks)
                                 /\ f.blocks[b].term.k = "Guard" => f.blocks[b].term.deopt < Len(f.deopts)
  BY <1>0, <1>1, <1>2
<1> DEFINE seqs == [b \in DOMAIN f.blocks |-> f.blocks[b].insts]
           all == AllInsts(f)
<1>8. Len(seqs) = len /\ \A b \in 1 .. len : seqs[b] = insts[b]
  BY <1>0, <1>1, <1>2
<1>9. all = FlattenSeq(seqs)
  BY DEF AllInsts
<1> HIDE DEF seqs
<1>10. \A b \in 1 .. len : c[b] <= c[b + 1] /\ Sound(seqs[b], c[b], c[b + 1])
  BY <1>0, <1>8
<1>11. FlattenSeq(seqs) = Joined(seqs, len) /\ Sound(Joined(seqs, len), c[1], c[len + 1])
  BY <1>0, <1>8, <1>10, SoundParts
<1>12. Sound(all, 0, f.values)
  BY <1>0, <1>9, <1>11
<1> HIDE DEF all
<1>13. ASSUME NEW i \in DOMAIN all PROVE InstVerifies(f, all, i)
  <2>1. SoundAt(all, i, 0, f.values)
    <3>1. DOMAIN all = 1 .. Len(all)
      BY <1>12 DEF Sound, IsSeq
    <3> QED
      BY <1>12, <1>13, <3>1 DEF Sound
  <2>2. \A use \in Operands(all[i].op) : \E j \in 1 .. i - 1 : all[j].result = use[1] /\ ResultType(all[j].op) = use[2]
    BY <2>1 DEF SoundAt, GivenBy
  <2>3. (ResultType(all[i].op) = "none") = (all[i].result = NoValue)
    BY <2>1 DEF SoundAt
  <2>4. all[i].result # NoValue => all[i].result < f.values /\ \A j \in 1 .. i - 1 : all[j].result # all[i].result
    <3>1. f.values \in Nat
      <4>1. len + 1 \in 1 .. len + 1
        OBVIOUS
      <4> QED
        BY <1>0, <4>1
    <3> QED
      BY <2>1, <3>1 DEF SoundAt
  <2> QED
    BY <2>2, <2>3, <2>4 DEF InstVerifies
<1>14. \A b \in DOMAIN f.blocks : EntryAddress(f.blocks[b]) \in Nat
  <2> SUFFICES ASSUME NEW b \in 1 .. len PROVE PcOf(base, s[b]) \in Nat
    BY <1>1, <1>3
  <2> DEFINE x == s[b]
  <2>1. x \in Nat
    BY <1>0
  <2>2. x >= 1
    <3>1. b = 1 \/ 1 < b
      OBVIOUS
    <3>2. 1 \in 1 .. len
      OBVIOUS
    <3> QED
      BY <1>0, <2>1, <3>1, <3>2
  <2> HIDE DEF x
  <2>3. base + 4 * (x - 1) \in Nat
    BY <2>1, <2>2
  <2> QED
    BY <2>3 DEF PcOf, x
<1>15. Verify(f)
  BY <1>4, <1>5, <1>6, <1>7, <1>13 DEF Verify, all
<1> QED
  BY <1>0, <1>1, <1>14, <1>15

\* Every branch of the program leads to an instruction of it.
Inside(prog, base, n) ==
    \A i \in 1 .. n : prog[i].k \in Jumps =>
        /\ IndexOf(prog, base, prog[i].target) # 0
        /\ prog[i].k = "CondBranch" => i + 1 \in 1 .. n

LEMMA TermInside ==
    ASSUME NEW prog, NEW n \in Nat \ {0}, Listing(prog, n), NEW base \in Nat, Inside(prog, base, n),
           NEW b \in DOMAIN StartsOf(prog, base)
    PROVE  /\ TermOf(prog, base, b).k \in {"Branch", "CondBranch", "Halt", "Return"}
           /\ \A t \in Successors(TermOf(prog, base, b)) : t \in 0 .. Len(StartsOf(prog, base)) - 1
<1> DEFINE e == EndAt(prog, base, b)
           len == Len(StartsOf(prog, base))
           p == prog[e]
<1>0. n = Len(prog) /\ DOMAIN prog = 1 .. n /\ (\A i \in 1 .. n : InstOk(prog[i]))
  BY DEF Listing
<1>1. /\ len \in Nat \ {0} /\ DOMAIN StartsOf(prog, base) = 1 .. len
      /\ StartsOf(prog, base)[b] \in 1 .. n /\ e \in StartsOf(prog, base)[b] .. n
      /\ \A i \in BlockStarts(prog, base) : BlockFound(prog, base, i)
  BY <1>0, BlocksShaped DEF BlockShape
<1>2. e \in 1 .. n
  BY <1>1
<1> HIDE DEF e, len
<1>3. \A i \in BlockStarts(prog, base) : BlockOfStart(prog, base, i) \in 0 .. len - 1
  BY <1>1 DEF BlockFound
<1>4. p.k \in Jumps => TargetOf(prog, base, e) \in 0 .. len - 1
  <2> SUFFICES ASSUME p.k \in Jumps PROVE TargetOf(prog, base, e) \in 0 .. len - 1
    OBVIOUS
  <2>1. p.target \in Int /\ IndexOf(prog, base, p.target) # 0
    BY <1>0, <1>2 DEF InstOk, Inside
  <2>2. IndexOf(prog, base, p.target) \in 1 .. n
    BY <1>0, <2>1, Indexed
  <2>3. IndexOf(prog, base, p.target) \in BlockStarts(prog, base)
    BY <1>0, <1>2, <2>2, StartsAre
  <2> QED
    BY <1>3, <2>3 DEF TargetOf
<1>5. p.k = "CondBranch" => BlockOfStart(prog, base, e + 1) \in 0 .. len - 1
  <2> SUFFICES ASSUME p.k = "CondBranch" PROVE BlockOfStart(prog, base, e + 1) \in 0 .. len - 1
    OBVIOUS
  <2>1. e + 1 \in 1 .. n /\ EndsBlock(p)
    BY <1>2 DEF Inside, Jumps, EndsBlock
  <2>2. e \in 1 .. n - 1
    BY <1>2, <2>1
  <2>3. e + 1 \in BlockStarts(prog, base)
    BY <1>0, <2>1, <2>2, StartsAre
  <2> QED
    BY <1>3, <2>3
<1> DEFINE term == TermOf(prog, base, b)
<1>6. term = CASE p.k = "Branch" -> [k |-> "Branch", target |-> TargetOf(prog, base, e)]
      [] p.k = "CondBranch" -> [k |-> "CondBranch", cond |-> p.cond, iftrue |-> TargetOf(prog, base, e),
                                iffalse |-> BlockOfStart(prog, base, e + 1)]
      [] p.k = "Svc" -> [k |-> "Halt"]
      [] OTHER -> IF b < len THEN [k |-> "Branch", target |-> b] ELSE [k |-> "Return"]
  BY DEF TermOf, e, len
<1>7. b \in 1 .. len
  BY <1>1
<1> HIDE DEF term, p
<1>8. CASE p.k = "Branch"
  BY <1>4, <1>6, <1>8 DEF Successors, Jumps, term, len
<1>9. CASE p.k = "CondBranch"
  BY <1>4, <1>5, <1>6, <1>9 DEF Successors, Jumps, term, len
<1>10. CASE p.k = "Svc"
  BY <1>6, <1>10 DEF Successors, term
<1>11. CASE p.k \notin {"Branch", "CondBranch", "Svc"}
  <2>1. CASE b < len
    <3>1. term = [k |-> "Branch", target |-> b] /\ b \in 0 .. len - 1
      BY <1>1, <1>6, <1>7, <1>11, <2>1
    <3> QED
      BY <3>1 DEF Successors, term, len
  <2>2. CASE ~(b < len)
    <3>1. term = [k |-> "Return"]
      BY <1>6, <1>11, <2>2
    <3> QED
      BY <3>1 DEF Successors, term
  <2> QED
    BY <2>1, <2>2
<1> QED
  BY <1>8, <1>9, <1>10, <1>11

\* A function the evaluator can follow: sound code, and ends that lead to blocks of it.
Sane(f) ==
    /\ 1 \in DOMAIN f.blocks
    /\ \A b \in DOMAIN f.blocks :
          /\ \E lo, hi : Sound(f.blocks[b].insts, lo, hi)
          /\ f.blocks[b].term.k \in {"Branch", "CondBranch", "Halt", "Return"}
          /\ \A t \in Successors(f.blocks[b].term) : t + 1 \in DOMAIN f.blocks

\* What lift_program makes of a listing verifies, and so does what dead-flag elimination leaves of it.
LEMMA FunctionVerifies ==
    ASSUME NEW prog, NEW n \in Nat, Listing(prog, n), Inside(prog, Base, n)
    PROVE  /\ Verify(FunctionOf(prog, Base)) /\ Verify(EliminateDeadFlags(FunctionOf(prog, Base)))
           /\ Sane(EliminateDeadFlags(FunctionOf(prog, Base))) /\ Accepted(EliminateDeadFlags(FunctionOf(prog, Base)))
<1> DEFINE F == FunctionOf(prog, Base)
           G == EliminateDeadFlags(F)
<1>1. CASE n = 0
  <2>1. prog = <<>>
    BY <1>1 DEF Listing
  <2>2. F = [entry |-> Base, values |-> ValuesBefore(prog)[Len(prog) + 1], deopts |-> <<>>,
             blocks |-> <<[insts |-> <<>>, term |-> [k |-> "Return"], at |-> Base]>>]
    BY <2>1, Zenon DEF FunctionOf
  <2> DEFINE values == F.values
             block == [insts |-> <<>>, term |-> [k |-> "Return"], at |-> Base]
  <2>3. F = [entry |-> Base, values |-> values, deopts |-> <<>>, blocks |-> <<block>>]
    BY <2>2
  <2>4. WithoutDeadFlags(<<>>) = <<>>
    <3>1. Sound(<<>>, 0, 0)
      BY NoneSound DEF Solid
    <3>2. Len(WithoutDeadFlags(<<>>)) = 0 /\ Sound(WithoutDeadFlags(<<>>), 0, 0)
      BY <3>1, DeadFlagsSound
    <3> QED
      BY <3>2 DEF Sound, IsSeq
  <2> HIDE DEF values, F
  <2>5. G = F
    <3>1. [block EXCEPT !.insts = WithoutDeadFlags(@)] = block
      BY <2>4
    <3>2. F.blocks = <<block>>
      BY <2>3
    <3> HIDE DEF block
    <3>3. [b \in DOMAIN F.blocks |-> [F.blocks[b] EXCEPT !.insts = WithoutDeadFlags(@)]] = <<block>>
      BY <3>1, <3>2
    <3> QED
      BY <2>3, <3>2, <3>3 DEF EliminateDeadFlags
  <2>6. Verify(F)
    <3>1. F.blocks = <<block>> /\ F.entry = Base
      BY <2>3
    <3>2. AllInsts(F) = <<>>
      <4> DEFINE seqs == [b \in DOMAIN F.blocks |-> F.blocks[b].insts]
      <4>1. Len(seqs) = 1 /\ seqs[1] = <<>>
        BY <3>1
      <4> HIDE DEF seqs
      <4>3. Len(seqs) \in Nat \ {0}
        BY <4>1
      <4>4. FlattenSeq(seqs) = FlattenOf(seqs)[Len(seqs)] /\ FlattenOf(seqs)[1] = seqs[1]
        BY <4>3, Flattens
      <4>2. FlattenSeq(seqs) = FlattenOf(seqs)[1] /\ FlattenOf(seqs)[1] = seqs[1]
        BY <4>1, <4>4
      <4> QED
        BY <4>1, <4>2 DEF AllInsts, seqs
    <3>3. DOMAIN AllInsts(F) = {}
      BY <3>2
    <3>4. EntryAddress(F.blocks[1]) = Base
      BY <3>1 DEF EntryAddress
    <3>5. DOMAIN F.blocks = {1} /\ F.blocks # <<>>
      BY <3>1
    <3>6. Successors(F.blocks[1].term) = {} /\ F.blocks[1].term.k # "Guard"
      BY <3>1 DEF Successors
    <3> QED
      BY <3>1, <3>3, <3>4, <3>5, <3>6 DEF Verify
  <2>7. Sane(F)
    <3>1. F.blocks = <<block>>
      BY <2>3
    <3>2. DOMAIN F.blocks = {1}
      BY <3>1
    <3>3. Sound(<<>>, 0, 0)
      BY NoneSound DEF Solid
    <3>4. F.blocks[1].insts = <<>> /\ F.blocks[1].term.k = "Return" /\ Successors(F.blocks[1].term) = {}
      BY <3>1 DEF Successors
    <3> HIDE DEF block
    <3> QED
      BY <3>2, <3>3, <3>4 DEF Sane
  <2>8. Accepted(F)
    <3>1. F.blocks = <<block>> /\ F.entry = Base
      BY <2>3
    <3>2. EntryAddress(F.blocks[1]) = Base
      BY <3>1 DEF EntryAddress
    <3>3. DOMAIN F.blocks = {1} /\ Len(F.blocks) = 1
      BY <3>1
    <3> HIDE DEF block
    <3> QED
      BY <2>6, <3>1, <3>2, <3>3, LimitsAssumption DEF Accepted, WellFormed
  <2> QED
    BY <2>5, <2>6, <2>7, <2>8 DEF F
<1>2. CASE n # 0
  <2> DEFINE starts == StartsOf(prog, Base)
             len == Len(starts)
             v == ValuesBefore(prog)
             insts == [b \in 1 .. len |-> CodeAt(prog, Base, b)]
             less == [b \in 1 .. len |-> WithoutDeadFlags(insts[b])]
             term == [b \in 1 .. len |-> TermOf(prog, Base, b)]
             at == [b \in 1 .. len |-> PcOf(Base, EndAt(prog, Base, b))]
             c == [b \in 1 .. len + 1 |-> IF b = len + 1 THEN v[n + 1] ELSE v[starts[b]]]
  <2>0. n = Len(prog) /\ DOMAIN prog = 1 .. n /\ n \in Nat \ {0} /\ Base \in Nat /\ prog # <<>>
    BY <1>2, LimitsAssumption DEF Listing
  <2>1. len \in Nat \ {0} /\ DOMAIN starts = 1 .. len /\ starts[1] = 1 /\ \A b \in 1 .. len : BlockShape(prog, Base, n, b)
    BY <2>0, BlocksShaped
  <2>2. \A b, d \in 1 .. len : b < d => starts[b] < starts[d]
    BY <2>0, <2>1, AscendingIs DEF Ordered, StartsOf
  <2>3. \A b \in 1 .. len : /\ starts[b] \in 1 .. n
                            /\ b = len => EndAt(prog, Base, b) = n
                            /\ b < len => starts[b + 1] = EndAt(prog, Base, b) + 1
    BY <2>1 DEF BlockShape
  <2> HIDE DEF starts, len, v
  <2>4. ASSUME NEW b \in 1 .. len
        PROVE  /\ c[b] \in Nat /\ c[b + 1] \in Nat /\ c[b] <= c[b + 1] /\ Sound(insts[b], c[b], c[b + 1])
               /\ IF Len(insts[b]) = 0 THEN at[b] = PcOf(Base, starts[b]) ELSE insts[b][1].at = PcOf(Base, starts[b])
    <3> DEFINE a == CodeAt(prog, Base, b)
    <3>1. b \in DOMAIN starts
      BY <2>1
    <3>2. /\ Sound(a, v[starts[b]], CountTo(prog, Base, b))
          /\ v[starts[b]] \in Nat /\ CountTo(prog, Base, b) \in Nat
          /\ v[starts[b]] <= CountTo(prog, Base, b)
          /\ Len(a) # 0 => a[1].at = PcOf(Base, starts[b])
          /\ Len(a) = 0 => EndAt(prog, Base, b) = starts[b]
      BY <2>0, <3>1, BlockSound DEF starts, v
    <3>3. c[b] = v[starts[b]]
      BY <2>1
    <3>4. c[b + 1] = v[EndAt(prog, Base, b) + 1]
      <4>1. CASE b = len
        BY <2>0, <2>1, <2>3, <4>1
      <4>2. CASE b < len
        <5>1. b + 1 \in 1 .. len + 1 /\ b + 1 # len + 1
          BY <2>1, <4>2
        <5> QED
          BY <2>3, <4>2, <5>1
      <4> QED
        BY <2>1, <4>1, <4>2
    <3>5. CountTo(prog, Base, b) = v[EndAt(prog, Base, b) + 1]
      BY DEF CountTo, v
    <3>6. insts[b] = a /\ at[b] = PcOf(Base, EndAt(prog, Base, b))
      OBVIOUS
    <3> HIDE DEF a, c, insts, at
    <3> QED
      BY <3>2, <3>3, <3>4, <3>5, <3>6
  <2>5. \A b \in 1 .. len : /\ term[b].k \in {"Branch", "CondBranch", "Halt", "Return"} /\ term[b].k # "Guard"
                            /\ \A t \in Successors(term[b]) : t < len /\ t + 1 \in 1 .. len
    <3> SUFFICES ASSUME NEW b \in 1 .. len
                 PROVE  /\ term[b].k \in {"Branch", "CondBranch", "Halt", "Return"} /\ term[b].k # "Guard"
                        /\ \A t \in Successors(term[b]) : t < len /\ t + 1 \in 1 .. len
      OBVIOUS
    <3>1. b \in DOMAIN starts /\ term[b] = TermOf(prog, Base, b)
      BY <2>1
    <3>2. /\ TermOf(prog, Base, b).k \in {"Branch", "CondBranch", "Halt", "Return"}
          /\ \A t \in Successors(TermOf(prog, Base, b)) : t \in 0 .. len - 1
      BY <2>0, <3>1, TermInside DEF starts, len
    <3> QED
      BY <2>1, <3>1, <3>2
  <2>6. F.blocks = [b \in 1 .. len |-> [insts |-> insts[b], term |-> term[b], at |-> at[b]]]
    <3>1. F.blocks = [b \in DOMAIN starts |-> BlockAt(prog, Base, b)]
      BY <2>0, Zenon DEF FunctionOf, starts
    <3> QED
      BY <2>1, <3>1 DEF BlockAt, CodeAt
  <2>7. F.values = v[n + 1] /\ F.entry = Base
    BY <2>0 DEF FunctionOf, v
  <2>8. c[1] = 0 /\ c[len + 1] = F.values /\ \A b \in 1 .. len + 1 : c[b] \in Nat
    <3>1. c[1] = v[1]
      BY <2>1
    <3>2. InstOk(prog[1]) /\ 1 \in 1 .. n
      BY <2>0 DEF Listing
    <3>3. v[1] = 0
      BY <2>0, <3>2, CountsGrow DEF v
    <3>4. c[len + 1] = v[n + 1]
      BY <2>1
    <3> HIDE DEF c
    <3>5. \A b \in 1 .. len + 1 : b \in 1 .. len \/ (b = len + 1 /\ len \in 1 .. len)
      BY <2>1
    <3> QED
      BY <2>4, <2>7, <3>1, <3>3, <3>4, <3>5
  <2>9. \A b \in 1 .. len : starts[b] \in Nat
    BY <2>0, <2>3
  <2>10. \A b \in 1 .. len : c[b] <= c[b + 1] /\ Sound(insts[b], c[b], c[b + 1])
    BY <2>4
  <2>11. \A b \in 1 .. len : IF Len(insts[b]) = 0 THEN at[b] = PcOf(Base, starts[b])
                             ELSE insts[b][1].at = PcOf(Base, starts[b])
    BY <2>4
  <2>12. \A b \in 1 .. len : less[b] = WithoutDeadFlags(insts[b])
    OBVIOUS
  <2>20. G.blocks = [b \in 1 .. len |-> [insts |-> less[b], term |-> term[b], at |-> at[b]]]
         /\ G.entry = Base /\ G.values = F.values
    <3> HIDE DEF F, less
    <3>1. /\ G.blocks = [b \in DOMAIN F.blocks |-> [F.blocks[b] EXCEPT !.insts = WithoutDeadFlags(@)]]
          /\ G.entry = F.entry /\ G.values = F.values
      <4>1. F.blocks = F.blocks /\ "blocks" \in DOMAIN F /\ "values" # "blocks" /\ "entry" # "blocks"
        BY DEF F, FunctionOf
      <4> QED
        BY <4>1 DEF EliminateDeadFlags
    <3>2. DOMAIN F.blocks = 1 .. len
      BY <2>6
    <3>3. \A b \in 1 .. len : [F.blocks[b] EXCEPT !.insts = WithoutDeadFlags(@)] =
                                 [insts |-> less[b], term |-> term[b], at |-> at[b]]
      <4> SUFFICES ASSUME NEW b \in 1 .. len
                   PROVE  [F.blocks[b] EXCEPT !.insts = WithoutDeadFlags(@)] =
                                 [insts |-> less[b], term |-> term[b], at |-> at[b]]
        OBVIOUS
      <4>1. F.blocks[b] = [insts |-> insts[b], term |-> term[b], at |-> at[b]]
        BY <2>6
      <4> HIDE DEF insts, term, at
      <4> QED
        BY <2>12, <4>1
    <3> QED
      BY <2>7, <3>1, <3>2, <3>3
  <2>13. ASSUME NEW b \in 1 .. len
         PROVE  /\ Sound(less[b], c[b], c[b + 1])
                /\ IF Len(less[b]) = 0 THEN at[b] = PcOf(Base, starts[b]) ELSE less[b][1].at = PcOf(Base, starts[b])
    <3> HIDE DEF c, insts, less, at
    <3> DEFINE a == insts[b]
    <3>1. /\ c[b] \in Nat /\ c[b + 1] \in Nat /\ Sound(a, c[b], c[b + 1]) /\ less[b] = WithoutDeadFlags(a)
          /\ IF Len(a) = 0 THEN at[b] = PcOf(Base, starts[b]) ELSE a[1].at = PcOf(Base, starts[b])
      BY <2>4, <2>12
    <3> HIDE DEF a
    <3>2. /\ Sound(WithoutDeadFlags(a), c[b], c[b + 1])
          /\ Len(a) = 0 => Len(WithoutDeadFlags(a)) = 0
          /\ Len(a) # 0 => Len(WithoutDeadFlags(a)) # 0 /\ WithoutDeadFlags(a)[1] = a[1]
      BY <3>1, DeadFlagsSound
    <3> QED
      BY <3>1, <3>2
  <2>14. \A b \in 1 .. len : c[b] <= c[b + 1] /\ Sound(less[b], c[b], c[b + 1])
    BY <2>10, <2>13
  <2>15. \A b \in 1 .. len : IF Len(less[b]) = 0 THEN at[b] = PcOf(Base, starts[b])
                             ELSE less[b][1].at = PcOf(Base, starts[b])
    BY <2>13
  <2> HIDE DEF F, G, c, insts, less, at, term
  <2>16. Verify(F)
    <3>1. Laid(F, len, insts, term, at, c, starts, Base)
      BY <2>1, <2>2, <2>5, <2>6, <2>7, <2>8, <2>9, <2>10, <2>11 DEF Laid
    <3> QED
      BY <2>0, <2>1, <3>1, VerifyHolds
  <2>17. Verify(G) /\ Accepted(G)
    <3>1. Laid(G, len, less, term, at, c, starts, Base)
      BY <2>1, <2>2, <2>5, <2>20, <2>8, <2>9, <2>14, <2>15 DEF Laid
    <3>2. /\ Verify(G) /\ G.entry = Base /\ DOMAIN G.blocks = 1 .. len /\ Len(G.blocks) = len
          /\ \A b \in DOMAIN G.blocks : EntryAddress(G.blocks[b]) \in Nat
      BY <2>0, <2>1, <3>1, VerifyHolds
    <3> QED
      BY <2>1, <3>2 DEF Accepted, WellFormed
  <2>18. Sane(G)
    <3>1. G.blocks = [b \in 1 .. len |-> [insts |-> less[b], term |-> term[b], at |-> at[b]]]
      BY <2>20
    <3>2. DOMAIN G.blocks = 1 .. len /\ \A b \in 1 .. len : G.blocks[b].insts = less[b] /\ G.blocks[b].term = term[b]
      BY <3>1
    <3>3. 1 \in 1 .. len
      BY <2>1
    <3> QED
      BY <2>5, <2>14, <3>2, <3>3 DEF Sane
  <2> QED
    BY <2>16, <2>17, <2>18 DEF F, G
<1> QED
  BY <1>1, <1>2

-----------------------------------------------------------------------------
(* The dead-flag pass and the terminators read what is defined.            *)

\* What an effect leaves as it was.
Apart(x, y) ==
    StateOk(y) /\ y.defined = x.defined /\ y.readUndefined = x.readUndefined /\ y.status = x.status /\ y.block = x.block

LEMMA PutApart ==
    ASSUME NEW e, StateOk(e), NEW f \in {"cpu", "mem", "pending", "values"}, NEW z
    PROVE  Apart(e, Put(e, f, z))
<1>1. f \in Fields \ {"readUndefined"}
  BY DEF Fields
<1>2. StateOk(Put(e, f, z)) /\ \A g \in Fields \ {f} : Put(e, f, z)[g] = e[g]
  BY <1>1, PutKeeps
<1> HIDE DEF Put
<1> QED
  BY <1>2 DEF Apart, Fields

LEMMA EffectsApart ==
    ASSUME NEW e, StateOk(e), NEW op
    PROVE  Apart(e, Effects(e, op))
<1>0. Apart(e, e)
  BY DEF Apart
<1>1. CASE op.k = "SetReg"
  <2>1. Effects(e, op) = Put(e, "cpu", WriteReg(e.cpu, op.reg, e.values[op.value]))
    BY <1>1 DEF Effects, Put, StoreOps
  <2> QED
    BY <2>1, PutApart
<1>2. CASE op.k \in StoreOps
  <2>1. Effects(e, op) = Put(e, "mem", StoreTo(e, op))
    BY <1>2 DEF Effects, Put, StoreOps
  <2> QED
    BY <2>1, PutApart
<1>3. CASE op.k = "SetFlags"
  <2>1. Effects(e, op) = Put(e, "pending", [op |-> op.op, lhs |-> e.values[op.lhs], rhs |-> e.values[op.rhs]])
    BY <1>3 DEF Effects, Put, StoreOps
  <2> QED
    BY <2>1, PutApart
<1>4. CASE op.k = "LoadExclusive"
  <2> DEFINE z == [e.cpu EXCEPT !.monitor = [address |-> e.values[op.address], size |-> TypeCells(op.ty)]]
  <2>1. Effects(e, op) = Put(e, "cpu", z)
    BY <1>4 DEF Effects, Put, StoreOps
  <2> HIDE DEF z
  <2> QED
    BY <2>1, PutApart
<1>5. CASE op.k = "StoreExclusive"
  <2> DEFINE z == [e.cpu EXCEPT !.monitor = NoMonitor]
             w == IF Held(e, op) THEN StoreTo(e, op) ELSE e.mem
             p == Put(e, "mem", w)
  <2>1. Effects(e, op) = [e EXCEPT !.mem = w, !.cpu = z]
    BY <1>5 DEF Effects, StoreOps
  <2> HIDE DEF z, w
  <2>2. Effects(e, op) = Put(p, "cpu", z)
    BY <2>1 DEF Put
  <2>3. Apart(e, p)
    BY PutApart
  <2> HIDE DEF p
  <2>4. Apart(p, Put(p, "cpu", z))
    BY <2>3, PutApart DEF Apart
  <2> QED
    BY <2>2, <2>3, <2>4 DEF Apart
<1>6. CASE op.k \in {"FpMoveImmediate", "FpScalarBinary"}
  <2>1. Effects(e, op) = Put(e, "cpu", ExecuteData(op, e.cpu))
    BY <1>6 DEF Effects, Put, StoreOps
  <2> QED
    BY <2>1, PutApart
<1>7. CASE op.k = "FpCompare"
  <2> DEFINE z == ExecuteData(op, e.cpu)
             p == Put(e, "cpu", z)
  <2>1. Effects(e, op) = [e EXCEPT !.cpu = z, !.pending = NoFlagSource]
    BY <1>7 DEF Effects, StoreOps
  <2> HIDE DEF z
  <2>2. Effects(e, op) = Put(p, "pending", NoFlagSource)
    BY <2>1 DEF Put
  <2>3. Apart(e, p)
    BY PutApart
  <2> HIDE DEF p
  <2>4. Apart(p, Put(p, "pending", NoFlagSource))
    BY <2>3, PutApart DEF Apart
  <2> QED
    BY <2>2, <2>3, <2>4 DEF Apart
<1>8. CASE op.k \in {"VectorBinary", "VectorCompare", "VectorShuffle"}
  <2>1. Effects(e, op) = Put(e, "cpu", VectorEffect(e.cpu, op))
    BY <1>8 DEF Effects, Put, StoreOps
  <2> QED
    BY <2>1, PutApart
<1>9. CASE /\ op.k \notin {"SetReg", "SetFlags", "LoadExclusive", "StoreExclusive", "FpMoveImmediate", "FpScalarBinary",
                           "FpCompare", "VectorBinary", "VectorCompare", "VectorShuffle"}
           /\ op.k \notin StoreOps
  <2>1. Effects(e, op) = e
    BY <1>9 DEF Effects
  <2> QED
    BY <1>0, <2>1
<1> QED
  BY <1>1, <1>2, <1>3, <1>4, <1>5, <1>6, <1>7, <1>8, <1>9

\* One op that reads nothing but what is defined.
LEMMA OpReads ==
    ASSUME NEW e, StateOk(e), e.status = "running", NEW inst, \A use \in Operands(inst.op) : use[1] \in e.defined, NEW pages
    PROVE  LET g == ExecuteOp(inst, e, pages)
           IN  /\ StateOk(g) /\ g.readUndefined = e.readUndefined /\ g.block = e.block /\ e.defined \subseteq g.defined
               /\ g.status = "running" /\ inst.result # NoValue => inst.result \in g.defined
<1> DEFINE op == inst.op
           r == Reading(e, op)
           x == Effects(r, op)
<1>1. Apart(e, r)
  <2>1. /\ StateOk(r) /\ \A g \in Fields \ {"readUndefined"} : r[g] = e[g]
        /\ r.readUndefined = (e.readUndefined \/ \E use \in Operands(op) : use[1] \notin e.defined)
    BY ReadingKeeps
  <2> HIDE DEF r
  <2>2. r.readUndefined = e.readUndefined
    BY <2>1 DEF StateOk
  <2> QED
    BY <2>1, <2>2 DEF Apart, Fields
<1>2. Apart(r, x)
  <2> HIDE DEF r
  <2> QED
    BY <1>1, EffectsApart DEF Apart
<1>3. CASE Faults(e, op, pages)
  <2>1. ExecuteOp(inst, e, pages) = Faulting(r)
    BY <1>3 DEF ExecuteOp
  <2> HIDE DEF r
  <2>2. Faulting(r) = Put(r, "status", "fault")
    BY DEF Faulting, Put
  <2>3. "status" \in Fields \ {"readUndefined"}
    BY DEF Fields
  <2>4. /\ StateOk(Put(r, "status", "fault")) /\ Put(r, "status", "fault")["status"] = "fault"
        /\ \A g \in Fields \ {"status"} : Put(r, "status", "fault")[g] = r[g]
    BY <1>1, <2>3, PutKeeps DEF Apart
  <2> HIDE DEF Put
  <2> QED
    BY <1>1, <2>1, <2>2, <2>4 DEF Apart, Fields
<1>4. CASE ~Faults(e, op, pages) /\ inst.result = NoValue
  <2>1. ExecuteOp(inst, e, pages) = x
    BY <1>4 DEF ExecuteOp
  <2> HIDE DEF r, x
  <2> QED
    BY <1>1, <1>2, <1>4, <2>1 DEF Apart
<1>5. CASE ~Faults(e, op, pages) /\ inst.result # NoValue
  <2> DEFINE v == inst.result
             w == [x.values EXCEPT ![v] = Computed(e, op)]
             d == x.defined \cup {v}
             p == Put(x, "values", w)
  <2>1. ExecuteOp(inst, e, pages) = Defining(x, v, Computed(e, op))
    BY <1>5 DEF ExecuteOp
  <2> HIDE DEF r, x
  <2>2. Defining(x, v, Computed(e, op)) = [x EXCEPT !.values = w, !.defined = d]
    BY DEF Defining
  <2> HIDE DEF w, d
  <2>3. Defining(x, v, Computed(e, op)) = Put(p, "defined", d)
    BY <2>2 DEF Put
  <2>4. Apart(x, p)
    BY <1>2, PutApart DEF Apart
  <2> HIDE DEF p
  <2>5. "defined" \in Fields \ {"readUndefined"}
    BY DEF Fields
  <2>6. /\ StateOk(Put(p, "defined", d)) /\ Put(p, "defined", d)["defined"] = d
        /\ \A g \in Fields \ {"defined"} : Put(p, "defined", d)[g] = p[g]
    BY <2>4, <2>5, PutKeeps DEF Apart
  <2> HIDE DEF Put
  <2>7. v \in d /\ x.defined \subseteq d
    BY DEF d
  <2> QED
    BY <1>1, <1>2, <2>1, <2>3, <2>4, <2>6, <2>7 DEF Apart, Fields
<1> QED
  BY <1>3, <1>4, <1>5

\* Sound code reads nothing that it has not defined itself.
LEMMA SoundReads ==
    ASSUME NEW a, NEW lo, NEW hi, Sound(a, lo, hi), NEW e, StateOk(e), NEW pages
    PROVE  LET g == ExecuteOps(a, e, pages)
           IN  StateOk(g) /\ g.readUndefined = e.readUndefined /\ g.block = e.block
<1> DEFINE m == Len(a)
           g == RunOf(a, e, pages)
           T == {k \in 0 .. m : /\ StateOk(g[k]) /\ g[k].readUndefined = e.readUndefined /\ g[k].block = e.block
                                /\ g[k].status = "running" =>
                                      \A j \in 1 .. k : a[j].result # NoValue => a[j].result \in g[k].defined}
<1>1. m \in Nat /\ DOMAIN a = 1 .. m /\ \A i \in 1 .. m : SoundAt(a, i, lo, hi)
  BY DEF Sound, IsSeq
<1>2. /\ g[0] = e /\ ExecuteOps(a, e, pages) = g[m]
      /\ \A k \in 1 .. m : g[k] = ExecuteOp(a[k], g[k - 1], pages)
  BY <1>1, OpsRun
<1> HIDE DEF g, m
<1>3. 0 \in T
  BY <1>1, <1>2
<1>4. ASSUME NEW k \in 1 .. m, k - 1 \in T PROVE k \in T
  <2> DEFINE x == g[k - 1]
  <2>1. /\ StateOk(x) /\ x.readUndefined = e.readUndefined /\ x.block = e.block
        /\ x.status = "running" => \A j \in 1 .. k - 1 : a[j].result # NoValue => a[j].result \in x.defined
    BY <1>4
  <2>2. g[k] = ExecuteOp(a[k], x, pages) /\ SoundAt(a, k, lo, hi) /\ k \in 0 .. m
    BY <1>1, <1>2
  <2> HIDE DEF x
  <2>3. CASE x.status # "running"
    <3>1. g[k] = x
      BY <2>2, <2>3 DEF ExecuteOp
    <3> QED
      BY <2>1, <2>2, <2>3, <3>1
  <2>4. CASE x.status = "running"
    <3>1. \A use \in Operands(a[k].op) : use[1] \in x.defined
      BY <2>1, <2>2, <2>4 DEF SoundAt, GivenBy
    <3> DEFINE y == g[k]
    <3>2. /\ StateOk(y) /\ y.readUndefined = x.readUndefined /\ y.block = x.block /\ x.defined \subseteq y.defined
          /\ y.status = "running" /\ a[k].result # NoValue => a[k].result \in y.defined
      BY <2>1, <2>2, <2>4, <3>1, OpReads
    <3> HIDE DEF y
    <3>3. \A j \in 1 .. k : j \in 1 .. k - 1 \/ j = k
      BY <1>1
    <3>4. y.status = "running" => \A j \in 1 .. k : a[j].result # NoValue => a[j].result \in y.defined
      BY <2>1, <2>4, <3>2, <3>3
    <3> QED
      BY <2>1, <2>2, <3>2, <3>4 DEF y
  <2> QED
    BY <2>3, <2>4
<1>5. \A k \in 0 .. m : k \in T
  <2> HIDE DEF T
  <2> QED
    BY <1>1, <1>3, <1>4, Upwards
<1>6. m \in T
  BY <1>1, <1>5
<1> QED
  BY <1>2, <1>6

-----------------------------------------------------------------------------
(* The inductive invariant of the translation: what is lifted verifies.    *)

\* A terminator reads no value and leads to a block of the function, or ends the run.
LEMMA TermReads ==
    ASSUME NEW f, NEW b, NEW e, StateOk(e), b.term.k \in {"Branch", "CondBranch", "Halt", "Return"},
           NEW D, \A t \in Successors(b.term) : t + 1 \in D
    PROVE  LET g == EvalTerminator(f, b, e)
           IN  StateOk(g) /\ g.readUndefined = e.readUndefined /\ (g.status = "running" => g.block + 1 \in D)
<1> DEFINE term == b.term
           flags == Observed(e)
           z == [e.cpu EXCEPT !.nzcv = flags]
           seen == [e EXCEPT !.cpu.nzcv = flags]
           g == EvalTerminator(f, b, e)
<1>1. seen = Put(e, "cpu", z) /\ Apart(e, seen)
  <2>1. seen = Put(e, "cpu", z)
    BY DEF Put
  <2> HIDE DEF z, seen
  <2> QED
    BY <2>1, PutApart
<1>2. \A x, block : StateOk(x) => LET y == Put(x, "block", block)
                                  IN StateOk(y) /\ y.readUndefined = x.readUndefined /\ y.block = block
  <2> SUFFICES ASSUME NEW x, NEW block, StateOk(x)
               PROVE LET y == Put(x, "block", block) IN StateOk(y) /\ y.readUndefined = x.readUndefined /\ y.block = block
    OBVIOUS
  <2>1. "block" \in Fields \ {"readUndefined"}
    BY DEF Fields
  <2>2. /\ StateOk(Put(x, "block", block)) /\ Put(x, "block", block)["block"] = block
        /\ \A h \in Fields \ {"block"} : Put(x, "block", block)[h] = x[h]
    BY <2>1, PutKeeps
  <2> HIDE DEF Put
  <2> QED
    BY <2>2 DEF Fields
<1>3. \A x, c : StateOk(x) => LET y == Put(Put(x, "cpu", c), "status", "exit")
                              IN StateOk(y) /\ y.readUndefined = x.readUndefined /\ y.status = "exit"
  <2> SUFFICES ASSUME NEW x, NEW c, StateOk(x)
               PROVE LET y == Put(Put(x, "cpu", c), "status", "exit")
                     IN StateOk(y) /\ y.readUndefined = x.readUndefined /\ y.status = "exit"
    OBVIOUS
  <2> DEFINE p == Put(x, "cpu", c)
  <2>1. StateOk(p) /\ p.readUndefined = x.readUndefined
    BY PutApart DEF Apart
  <2>2. "status" \in Fields \ {"readUndefined"}
    BY DEF Fields
  <2> HIDE DEF p
  <2>3. /\ StateOk(Put(p, "status", "exit")) /\ Put(p, "status", "exit")["status"] = "exit"
        /\ \A h \in Fields \ {"status"} : Put(p, "status", "exit")[h] = p[h]
    BY <2>1, <2>2, PutKeeps
  <2> HIDE DEF Put
  <2> QED
    BY <2>1, <2>3 DEF Fields, p
<1> HIDE DEF seen, flags
<1>4. CASE term.k = "Branch"
  <2>1. g = Put(e, "block", term.target)
    BY <1>4 DEF EvalTerminator, Put
  <2>2. term.target + 1 \in D
    BY <1>4 DEF Successors
  <2> QED
    BY <1>2, <2>1, <2>2
<1>5. CASE term.k = "CondBranch"
  <2> DEFINE block == IF Satisfies(flags, term.cond) THEN term.iftrue ELSE term.iffalse
  <2>1. g = Put(seen, "block", block)
    BY <1>5 DEF EvalTerminator, Put, seen, flags
  <2>2. block + 1 \in D
    <3>1. term.iftrue + 1 \in D /\ term.iffalse + 1 \in D
      BY <1>5 DEF Successors
    <3> QED
      BY <3>1
  <2> HIDE DEF block
  <2> QED
    BY <1>1, <1>2, <2>1, <2>2 DEF Apart
<1>6. CASE term.k = "Halt"
  <2> DEFINE c1 == [seen.cpu EXCEPT !.pc = b.at + 4]
             c2 == [c1 EXCEPT !.halted = TRUE]
  <2>1. g = [seen EXCEPT !.cpu.pc = b.at + 4, !.cpu.halted = TRUE, !.status = "exit"]
    BY <1>6 DEF EvalTerminator, seen, flags
  <2>2. StateOk(seen)
    BY <1>1 DEF Apart
  <2>3. g = Put(Put(seen, "cpu", c2), "status", "exit")
    <3>1. seen = [h \in Fields |-> seen[h]]
      BY <2>2 DEF StateOk
    <3>2. [seen EXCEPT !.cpu.pc = b.at + 4] = Put(seen, "cpu", c1)
      BY DEF Put
    <3>3. Put(seen, "cpu", c1).cpu = c1
      <4>1. "cpu" \in Fields \ {"readUndefined"}
        BY DEF Fields
      <4>2. Put(seen, "cpu", c1)["cpu"] = c1
        BY <2>2, <4>1, PutKeeps
      <4> QED
        BY <4>2
    <3> HIDE DEF c1
    <3>4. [Put(seen, "cpu", c1) EXCEPT !.cpu.halted = TRUE] = Put(Put(seen, "cpu", c1), "cpu", c2)
      BY <3>3 DEF Put
    <3>5. Put(Put(seen, "cpu", c1), "cpu", c2) = Put(seen, "cpu", c2)
      BY <3>1 DEF Put
    <3> HIDE DEF c2
    <3>6. g = Put([Put(seen, "cpu", c1) EXCEPT !.cpu.halted = TRUE], "status", "exit")
      BY <2>1, <3>2 DEF Put
    <3> QED
      BY <3>4, <3>5, <3>6
  <2> HIDE DEF c2
  <2>4. g.readUndefined = seen.readUndefined /\ StateOk(g) /\ g.status = "exit"
    BY <1>3, <2>2, <2>3
  <2> QED
    BY <1>1, <2>4 DEF Apart
<1>7. CASE term.k = "Return"
  <2>1. g = Put(seen, "status", "exit")
    BY <1>7 DEF EvalTerminator, Put, seen, flags
  <2>2. StateOk(seen)
    BY <1>1 DEF Apart
  <2>3. Put(seen, "cpu", seen.cpu) = seen
    <3>1. seen = [h \in Fields |-> seen[h]] /\ "cpu" \in Fields
      BY <2>2 DEF StateOk, Fields
    <3> QED
      BY <3>1 DEF Put
  <2>4. g = Put(Put(seen, "cpu", seen.cpu), "status", "exit")
    BY <2>1, <2>3
  <2>5. g.readUndefined = seen.readUndefined /\ StateOk(g) /\ g.status = "exit"
    BY <1>3, <2>2, <2>4
  <2> QED
    BY <1>1, <2>5 DEF Apart
<1> QED
  BY <1>4, <1>5, <1>6, <1>7

\* One turn of the evaluator over a function it can follow.
LEMMA BlockReads ==
    ASSUME NEW f, Sane(f), NEW e, StateOk(e), e.block + 1 \in DOMAIN f.blocks, NEW pages
    PROVE  LET g == EvalBlock(f, e, pages)
           IN  /\ StateOk(g) /\ g.readUndefined = e.readUndefined
               /\ g.status = "running" => g.block + 1 \in DOMAIN f.blocks
<1> DEFINE b == f.blocks[e.block + 1]
           done == ExecuteOps(b.insts, e, pages)
<1>1. /\ \E lo, hi : Sound(b.insts, lo, hi)
      /\ b.term.k \in {"Branch", "CondBranch", "Halt", "Return"}
      /\ \A t \in Successors(b.term) : t + 1 \in DOMAIN f.blocks
  BY DEF Sane
<1>2. EvalBlock(f, e, pages) = IF done.status = "running" THEN EvalTerminator(f, b, done) ELSE done
  BY DEF EvalBlock
<1> HIDE DEF b
<1>3. StateOk(done) /\ done.readUndefined = e.readUndefined /\ done.block = e.block
  BY <1>1, SoundReads
<1> HIDE DEF done
<1>4. LET g == EvalTerminator(f, b, done)
      IN  /\ StateOk(g) /\ g.readUndefined = done.readUndefined
          /\ g.status = "running" => g.block + 1 \in DOMAIN f.blocks
  BY <1>1, <1>3, TermReads
<1> QED
  BY <1>2, <1>3, <1>4

\* The inductive invariant: the evaluator is in a block of a function it can follow.
LiftInv ==
    /\ test \in Tests
    /\ stage = "untranslated" => ~BranchesInside
    /\ test.func = NoFunction =>
          /\ StateOk(ev) /\ ~ev.readUndefined
          /\ stage = "evaluate" => Sane(func) /\ (ev.status = "running" => ev.block + 1 \in DOMAIN func.blocks)

LEMMA StartReads ==
    ASSUME NEW f, NEW cpu, NEW mem
    PROVE  LET e == EvalStart(f, cpu, mem) IN StateOk(e) /\ ~e.readUndefined /\ e.block = 0
<1> DEFINE e == EvalStart(f, cpu, mem)
<1>1. e = [g \in Fields |-> e[g]]
  BY DEF EvalStart, Fields
<1>2. e.readUndefined = FALSE /\ e.block = 0
  BY DEF EvalStart
<1> HIDE DEF e
<1> QED
  BY <1>1, <1>2 DEF StateOk, e

LEMMA InsideIs ==
    ASSUME NEW prog, NEW base, NEW n, DOMAIN prog = 1 .. n
    PROVE  /\ Inside(prog, base, n) <=> ~\E i \in DOMAIN prog : prog[i].k \in Jumps /\ Unresolved(prog, base, i)
           /\ prog = test.prog /\ base = Base => (Inside(prog, base, n) <=> BranchesInside)
BY DEF Inside, Unresolved, BranchesInside

LEMMA TranslateReads == LiftInv /\ Translate => LiftInv'
<1> SUFFICES ASSUME LiftInv, Translate PROVE LiftInv'
  OBVIOUS
<1> DEFINE prog == test.prog
           n == Len(prog)
           lifted == LiftProgram(prog, Base)
           F == FunctionOf(prog, Base)
           G == EliminateDeadFlags(F)
           optimised == EliminateDeadFlags(lifted.f)
<1>1. test' = test /\ test \in Tests
  BY DEF LiftInv, Translate
<1>2. n \in Nat /\ Listing(prog, n) /\ DOMAIN prog = 1 .. n
  BY <1>1, TestsAssumption DEF Listing
<1> HIDE DEF n
<1>3. /\ Inside(prog, Base, n) <=> ~\E i \in DOMAIN prog : prog[i].k \in Jumps /\ Unresolved(prog, Base, i)
      /\ Inside(prog, Base, n) <=> BranchesInside
  BY <1>2, InsideIs
<1>4. lifted = IF \E i \in DOMAIN prog : prog[i].k \in Jumps /\ Unresolved(prog, Base, i)
               THEN [ok |-> FALSE]
               ELSE IF Verify(F) THEN [ok |-> TRUE, f |-> F] ELSE [ok |-> FALSE]
  BY LiftParts
<1>5. Inside(prog, Base, n) => Verify(F) /\ Verify(G) /\ Sane(G)
  BY <1>2, FunctionVerifies
<1>6. BranchesInside' <=> BranchesInside
  BY <1>1 DEF BranchesInside
<1>7. IF lifted.ok /\ Verify(optimised)
      THEN stage' = "evaluate" /\ func' = optimised /\ ev' = EvalStart(optimised, NewCpu, NewMem)
      ELSE stage' = "untranslated" /\ ev' = ev
  BY DEF Translate
<1> HIDE DEF lifted, F, G
<1>8. Inside(prog, Base, n) => lifted.ok /\ optimised = G
  BY <1>3, <1>4, <1>5 DEF G
<1>9. lifted.ok => Inside(prog, Base, n)
  BY <1>3, <1>4
<1> HIDE DEF optimised, prog
<1>10. CASE lifted.ok /\ Verify(optimised)
  <2>1. stage' = "evaluate" /\ func' = G /\ ev' = EvalStart(G, NewCpu, NewMem) /\ Sane(G)
    BY <1>5, <1>7, <1>8, <1>9, <1>10
  <2>2. StateOk(ev') /\ ~ev'.readUndefined /\ ev'.block = 0
    BY <2>1, StartReads
  <2>3. ev'.block + 1 \in DOMAIN func'.blocks
    BY <2>1, <2>2 DEF Sane
  <2> QED
    BY <1>1, <2>1, <2>2, <2>3 DEF LiftInv
<1>11. CASE ~(lifted.ok /\ Verify(optimised))
  <2>1. ~BranchesInside /\ stage' = "untranslated" /\ ev' = ev
    BY <1>3, <1>5, <1>7, <1>8, <1>11
  <2> QED
    BY <1>1, <1>6, <2>1 DEF LiftInv
<1> QED
  BY <1>10, <1>11

LEMMA EvaluateReads == LiftInv /\ EvaluateBlock => LiftInv'
<1> SUFFICES ASSUME LiftInv, EvaluateBlock PROVE LiftInv'
  OBVIOUS
<1>1. /\ stage = "evaluate" /\ ev.status = "running" /\ ev' = EvalBlock(func, ev, test.pages)
      /\ test' = test /\ stage' = stage /\ func' = func
  BY DEF EvaluateBlock
<1>2. test \in Tests
  BY DEF LiftInv
<1>3. ASSUME test.func = NoFunction
      PROVE  /\ StateOk(ev') /\ ~ev'.readUndefined /\ Sane(func')
             /\ ev'.status = "running" => ev'.block + 1 \in DOMAIN func'.blocks
  <2>1. StateOk(ev) /\ ~ev.readUndefined /\ Sane(func) /\ ev.block + 1 \in DOMAIN func.blocks
    BY <1>1, <1>3 DEF LiftInv
  <2>2. LET g == EvalBlock(func, ev, test.pages)
        IN  /\ StateOk(g) /\ g.readUndefined = ev.readUndefined
            /\ g.status = "running" => g.block + 1 \in DOMAIN func.blocks
    BY <2>1, BlockReads
  <2> QED
    BY <1>1, <2>1, <2>2
<1> QED
  BY <1>1, <1>2, <1>3 DEF LiftInv

\* Whatever the program, if its branches stay inside it, lift_program and the
\* dead-flag pass yield functions the verifier accepts; and the evaluator never
\* reads a value that no op has defined (lift_program, verify,
\* eliminate_dead_flags, evaluate).
THEOREM LiftingVerifies == TestSpec => []LiftedVerifies
<1>1. TestInit => LiftInv
  <2> SUFFICES ASSUME TestInit PROVE LiftInv
    OBVIOUS
  <2>1. test \in Tests /\ stage \in {"interpret", "evaluate"} /\ ev = EvalStart(test.func, NewCpu, NewMem)
        /\ (test.func = NoFunction => stage = "interpret")
    BY DEF TestInit
  <2>2. StateOk(ev) /\ ~ev.readUndefined
    BY <2>1, StartReads
  <2> QED
    BY <2>1, <2>2 DEF LiftInv
<1>2. LiftInv /\ [TestNext]_testVars => LiftInv'
  <2> SUFFICES ASSUME LiftInv, [TestNext]_testVars PROVE LiftInv'
    OBVIOUS
  <2>1. CASE Interpret
    <3>1. /\ stage = "interpret" /\ test' = test /\ stage' = stage /\ func' = func /\ ev' = ev
      BY <2>1 DEF Interpret
    <3> QED
      BY <3>1 DEF LiftInv
  <2>2. CASE Translate
    BY <2>2, TranslateReads
  <2>3. CASE EvaluateBlock
    BY <2>3, EvaluateReads
  <2>4. CASE Evaluated
    <3>1. stage' = "native" /\ test' = test /\ ev' = ev
      BY <2>4 DEF Evaluated
    <3> QED
      BY <3>1 DEF LiftInv
  <2>5. CASE NativeBlock \/ NativeFails
    <3>1. stage = "native" /\ stage' = stage /\ test' = test /\ ev' = ev
      BY <2>5 DEF NativeBlock, NativeFails
    <3> QED
      BY <3>1 DEF LiftInv
  <2>6. CASE UNCHANGED testVars
    BY <2>6 DEF LiftInv, testVars, BranchesInside
  <2> QED
    BY <2>1, <2>2, <2>3, <2>4, <2>5, <2>6 DEF TestNext
<1>3. LiftInv => LiftedVerifies
  BY DEF LiftInv, LiftedVerifies
<1> QED
  BY <1>1, <1>2, <1>3, PTL DEF TestSpec

-----------------------------------------------------------------------------
(* The inductive invariant of the layout: native runs start at block 1.    *)

NativeFields == {"cpu", "mem", "status", "frame", "fastmem", "path"}
\* A run enters blocks of the function, the first one first.
Enters(n, f) ==
    /\ DOMAIN n = NativeFields /\ n.path \in Seq(DOMAIN f.blocks)
    /\ Len(n.path) = 0 => n.cpu.pc = Base
    /\ Len(n.path) # 0 => n.path[1] = 1
LayoutInv ==
    /\ test \in Tests /\ stage \in {"interpret", "untranslated", "evaluate", "native"}
    /\ stage = "interpret" => test.func = NoFunction
    /\ stage \in {"interpret", "untranslated", "evaluate"} => nat = NewNative(test.fastmem)
    /\ stage \in {"evaluate", "native"} => Accepted(func)
    /\ stage = "native" => Enters(nat, func)

\* What is translated is accepted.
LEMMA TranslatedAccepted ==
    ASSUME test \in Tests, Translate, stage' = "evaluate" PROVE Accepted(func')
<1> DEFINE prog == test.prog
           n == Len(prog)
           lifted == LiftProgram(prog, Base)
           F == FunctionOf(prog, Base)
           G == EliminateDeadFlags(F)
           optimised == EliminateDeadFlags(lifted.f)
<1>1. n \in Nat /\ Listing(prog, n) /\ DOMAIN prog = 1 .. n
  BY TestsAssumption DEF Listing
<1> HIDE DEF n
<1>2. Inside(prog, Base, n) <=> ~\E i \in DOMAIN prog : prog[i].k \in Jumps /\ Unresolved(prog, Base, i)
  BY <1>1, InsideIs
<1>3. lifted = IF \E i \in DOMAIN prog : prog[i].k \in Jumps /\ Unresolved(prog, Base, i)
               THEN [ok |-> FALSE]
               ELSE IF Verify(F) THEN [ok |-> TRUE, f |-> F] ELSE [ok |-> FALSE]
  BY LiftParts
<1>4. Inside(prog, Base, n) => Accepted(G)
  BY <1>1, FunctionVerifies
<1>5. lifted.ok /\ func' = optimised
  <2>1. IF lifted.ok /\ Verify(optimised) THEN stage' = "evaluate" /\ func' = optimised ELSE stage' = "untranslated"
    BY DEF Translate
  <2> HIDE DEF lifted, optimised
  <2> QED
    BY <2>1
<1> HIDE DEF lifted, F, G
<1>6. lifted.f = F /\ Inside(prog, Base, n)
  BY <1>2, <1>3, <1>5
<1> QED
  BY <1>4, <1>5, <1>6 DEF G

LEMMA NativeEnters ==
    ASSUME LayoutInv, NativeBlock PROVE LayoutInv'
<1>1. stage = "native" /\ stage' = stage /\ test' = test /\ func' = func
  BY DEF NativeBlock
<1>2. Enters(nat, func) /\ Accepted(func)
  BY <1>1 DEF LayoutInv
<1>3. PICK b \in AtPc : nat'.path = Append(nat.path, b) /\ DOMAIN nat' = DOMAIN nat
  <2> DEFINE M(b) == RunCode(Machine(NativeState(nat.cpu, nat.fastmem), nat.cpu.v, nat.mem),
                             LowerBlock(func.blocks[b], func.values, Entries), test.pages)
  <2>1. PICK b \in AtPc :
           nat' = [nat EXCEPT !.cpu = ApplyTo(@, M(b)), !.mem = M(b).mem, !.frame = @ /\ FrameKept(M(b)),
                              !.path = Append(@, b),
                              !.status = IF M(b).st.memory_fault # 0 THEN "fault"
                                         ELSE IF M(b).st.halted # 0 THEN "exit" ELSE "running"]
    BY DEF NativeBlock
  <2>2. "path" \in DOMAIN nat
    BY <1>2 DEF Enters, NativeFields
  <2> QED
    BY <2>1, <2>2
<1>4. b \in DOMAIN func.blocks /\ EntryAddress(func.blocks[b]) = nat.cpu.pc
  BY DEF AtPc, Entries
<1>5. Len(nat.path) = 0 => b = 1
  <2>1. EntryAddress(func.blocks[1]) = Base /\ 1 \in DOMAIN func.blocks
    <3>1. func.entry = Base /\ func.entry = EntryAddress(func.blocks[1])
      BY <1>2 DEF Accepted, WellFormed, Verify
    <3> QED
      BY <1>2, <3>1, AddressesTell DEF Accepted
  <2> QED
    BY <1>2, <1>4, <2>1, AddressesTell DEF Enters, Accepted
<1>6. Enters(nat', func)
  <2> DEFINE B == DOMAIN func.blocks
             p == nat.path
             q == nat'.path
  <2>1. p \in Seq(B) /\ b \in B /\ q = Append(p, b) /\ (Len(p) = 0 => b = 1) /\ (Len(p) # 0 => p[1] = 1)
    BY <1>2, <1>3, <1>4, <1>5 DEF Enters
  <2> HIDE DEF B, p, q
  <2>2. q \in Seq(B) /\ Len(q) # 0 /\ q[1] = 1
    BY <2>1
  <2>3. DOMAIN nat' = NativeFields
    BY <1>2, <1>3 DEF Enters
  <2> QED
    BY <2>2, <2>3 DEF Enters, B, q
<1> QED
  BY <1>1, <1>2, <1>6 DEF LayoutInv

LEMMA LayoutStep == LayoutInv /\ [TestNext]_testVars => LayoutInv'
<1> SUFFICES ASSUME LayoutInv, [TestNext]_testVars PROVE LayoutInv'
  OBVIOUS
<1>1. CASE Interpret
  <2>1. stage = "interpret" /\ test' = test /\ stage' = stage /\ func' = func /\ nat' = nat
    BY <1>1 DEF Interpret
  <2> QED
    BY <2>1 DEF LayoutInv
<1>2. CASE Translate
  <2>1. stage = "interpret" /\ test' = test /\ stage' \in {"evaluate", "untranslated"} /\ nat' = nat
    BY <1>2 DEF Translate, Interpreted
  <2>2. stage' = "evaluate" => Accepted(func')
    BY <1>2, TranslatedAccepted DEF LayoutInv
  <2> QED
    BY <2>1, <2>2 DEF LayoutInv
<1>3. CASE EvaluateBlock
  <2>1. stage = "evaluate" /\ test' = test /\ stage' = stage /\ func' = func /\ nat' = nat
    BY <1>3 DEF EvaluateBlock
  <2> QED
    BY <2>1 DEF LayoutInv
<1>4. CASE Evaluated
  <2>1. stage = "evaluate" /\ stage' = "native" /\ test' = test /\ func' = func /\ nat' = nat
    BY <1>4 DEF Evaluated
  <2>2. nat = NewNative(test.fastmem) /\ Accepted(func)
    BY <2>1 DEF LayoutInv
  <2>3. DOMAIN nat = NativeFields /\ nat.path = <<>> /\ nat.cpu.pc = Base
    BY <2>2 DEF NewNative, NewCpu, NativeFields
  <2>4. Enters(nat, func)
    BY <2>3 DEF Enters
  <2> QED
    BY <2>1, <2>2, <2>4 DEF LayoutInv
<1>5. CASE NativeBlock
  BY <1>5, NativeEnters
<1>6. CASE NativeFails
  <2>1. stage = "native" /\ stage' = stage /\ test' = test /\ func' = func
        /\ \E s : nat' = [nat EXCEPT !.status = s]
    BY <1>6 DEF NativeFails
  <2>2. Enters(nat, func) /\ Accepted(func)
    BY <2>1 DEF LayoutInv
  <2>3. DOMAIN nat' = DOMAIN nat /\ nat'.path = nat.path /\ nat'.cpu = nat.cpu
    BY <2>1, <2>2 DEF Enters, NativeFields
  <2>4. Enters(nat', func)
    BY <2>2, <2>3 DEF Enters
  <2> QED
    BY <2>1, <2>2, <2>4 DEF LayoutInv
<1>7. CASE UNCHANGED testVars
  BY <1>7 DEF LayoutInv, testVars
<1> QED
  BY <1>1, <1>2, <1>3, <1>4, <1>5, <1>6, <1>7 DEF TestNext

\* Whatever ran, the layout is a permutation of the blocks, and a run that
\* entered no block twice is laid out at its head in the order it ran
\* (hot_cold_layout).
THEOREM LayoutFollows == TestSpec => []LayoutFollowsRun
<1>1. TestInit => LayoutInv
  <2> SUFFICES ASSUME TestInit PROVE LayoutInv
    OBVIOUS
  <2>1. test \in Tests /\ stage = (IF test.func = NoFunction THEN "interpret" ELSE "evaluate")
        /\ func = test.func /\ nat = NewNative(test.fastmem)
    BY DEF TestInit
  <2>2. test.func # NoFunction => Accepted(test.func)
    BY <2>1, FunctionsAssumption
  <2> QED
    BY <2>1, <2>2 DEF LayoutInv
<1>2. LayoutInv => LayoutFollowsRun
  <2> SUFFICES ASSUME LayoutInv, stage = "native", nat.path # <<>> PROVE LayoutFollowsRun
    BY DEF LayoutFollowsRun
  <2>1. Accepted(func) /\ nat.path \in Seq(DOMAIN func.blocks) /\ (Len(nat.path) # 0 => nat.path[1] = 1)
    BY DEF LayoutInv, Enters
  <2>2. Len(nat.path) # 0
    BY <2>1
  <2> DEFINE layout == HotColdLayout(func, EdgesOf(nat.path))
  <2>3. LaidOut(func, nat.path, EdgesOf(nat.path), layout)
    BY DEF LaidOut
  <2> HIDE DEF layout
  <2>4. /\ Len(layout) = Len(func.blocks) /\ ToSet(layout) = DOMAIN func.blocks
        /\ nat.path[1] = 1 /\ Cardinality(ToSet(nat.path)) = Len(nat.path) => IsPrefix(nat.path, layout)
    BY <2>1, <2>2, <2>3, LayoutHolds DEF Accepted
  <2> QED
    BY <2>1, <2>2, <2>4 DEF LayoutFollowsRun, EdgesOf, layout
<1> QED
  BY <1>1, <1>2, LayoutStep, PTL DEF TestSpec
=============================================================================
