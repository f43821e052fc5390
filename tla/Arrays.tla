--------------------------------- MODULE Arrays ---------------------------------
(***************************************************************************)
(* N-dimensional arrays: descriptors that look at elements of a storage    *)
(* they share by reference counting.  Offsets and strides are counted in   *)
(* elements.                                                               *)
(*                                                                         *)
(* A heap is [arrays, storages, deleted]: the caller's descriptors by      *)
(* name, the live storages, and how often the deleter of every buffer ran. *)
(* An operation yields [status, heap]; one that fails yields the heap it   *)
(* was given.                                                              *)
(***************************************************************************)
EXTENDS Numbers

CONSTANTS
  MaxSize,        \* the greatest size_t
  MaxStride       \* the greatest ptrdiff_t

ASSUME StridesAreSizes == MaxSize \in Nat /\ MaxStride \in 1..MaxSize

NoStorage == 0
Internal == "internal"           \* the buffer of a storage the library made

NoArray ==
  [storage |-> NoStorage, dtype |-> "bool", shape |-> <<>>, strides |-> <<>>,
   offset |-> 0, own |-> FALSE, readonly |-> FALSE]

Done(heap) == [status |-> "ok", heap |-> heap]
Refused(heap, status) == [status |-> status, heap |-> heap]

\* The result, unless a status forbids it.
When(heap, statuses, result) ==
  IF FirstStatus(statuses) # "ok" THEN Refused(heap, FirstStatus(statuses)) ELSE result

-----------------------------------------------------------------------------
(* Shapes and strides.                                                      *)

\* The products of the first dimensions.
Products(dims) ==
  LET P[n \in 0..Len(dims)] == IF n = 0 THEN 1 ELSE P[n - 1] * dims[n] IN P

Product(dims) == Products(dims)[Len(dims)]

\* The product is checked after every axis, even when a later one is 0.
ShapeStatus(shape) ==
  Must(\A n \in DOMAIN shape : Products(shape)[n] =< MaxSize, "overflow")

Size(d) == Product(d.shape)

\* The stride of an axis: the product of those behind it, from the last on; an
\* empty one does not make it 0.
FromTheLast(shape) ==
  [n \in DOMAIN shape |->
     LET dim == shape[Len(shape) + 1 - n] IN IF dim = 0 THEN 1 ELSE dim]

StepOf(shape, axis) == Products(FromTheLast(shape))[Len(shape) - axis]

ContiguousStrides(shape) == [axis \in DOMAIN shape |-> StepOf(shape, axis)]

ContiguousStatus(shape) ==
  Must(\A axis \in DOMAIN shape :
         /\ StepOf(shape, axis) =< MaxStride
         /\ shape[axis] # 0 => StepOf(shape, axis) * shape[axis] =< MaxSize, "overflow")

\* How far the strides of one sign reach.
Extents(d, sign) ==
  [axis \in DOMAIN d.shape |->
     IF d.shape[axis] > 1 /\ sign * d.strides[axis] > 0
       THEN (d.shape[axis] - 1) * (sign * d.strides[axis]) ELSE 0]

Reach(d, sign) == TotalOf(0, Extents(d, sign))

ReachStatus(d, length) ==
  FirstStatus(<<Must(Reach(d, 1) =< MaxSize /\ Reach(d, -1) =< MaxSize, "overflow"),
            Must(Reach(d, -1) =< d.offset, "argument"),
            Must(d.offset + Reach(d, 1) =< MaxSize, "overflow"),
            Must(d.offset + Reach(d, 1) < length, "argument")>>)

\* What a descriptor must be before anything is read through it.
ValidateArray(storages, d) ==
  IF d.storage = NoStorage THEN "argument"
  ELSE FirstStatus(<<ShapeStatus(d.shape),
                 Must(d.readonly \/ 0 \notin ToSet(d.strides), "argument"),
                 Must(d.offset =< Len(storages[d.storage].cells), "argument"),
                 IF Size(d) = 0 THEN "ok"
                 ELSE ReachStatus(d, Len(storages[d.storage].cells))>>)

-----------------------------------------------------------------------------
(* The elements in row-major order.                                         *)

Coordinate(shape, index, axis) == (index \div StepOf(shape, axis)) % shape[axis]

\* The element at a coordinate of every axis.
Moves(d, coordinates) == [axis \in DOMAIN d.shape |-> coordinates[axis] * d.strides[axis]]

OffsetAt(d, coordinates) == TotalOf(d.offset, Moves(d, coordinates))

Coordinates(shape, index) == [axis \in DOMAIN shape |-> Coordinate(shape, index, axis)]

LinearOffset(d, index) == OffsetAt(d, Coordinates(d.shape, index))

Elements(storages, d) ==
  [k \in 1..Size(d) |-> storages[d.storage].cells[LinearOffset(d, k - 1) + 1]]

IsContiguous(d) ==
  Size(d) # 0 =>
    \A axis \in DOMAIN d.shape : d.shape[axis] > 1 => d.strides[axis] = StepOf(d.shape, axis)

-----------------------------------------------------------------------------
(* Storages: made with one reference, and gone with their last one.         *)

NewStorage(storages) == Min(1..(Cardinality(DOMAIN storages) + 1) \ DOMAIN storages)

WithStorage(heap, id, cells, buffer) ==
  [heap EXCEPT !.storages =
     [other \in DOMAIN @ \cup {id} |->
        IF other = id THEN [cells |-> cells, references |-> 1, buffer |-> buffer] ELSE @[other]]]

StorageRetain(heap, id) == [heap EXCEPT !.storages[id].references = @ + 1]

StorageRelease(heap, id) ==
  IF id = NoStorage THEN heap
  ELSE IF heap.storages[id].references > 1 THEN [heap EXCEPT !.storages[id].references = @ - 1]
  ELSE [heap EXCEPT !.storages = [other \in DOMAIN @ \ {id} |-> @[other]],
                    !.deleted[heap.storages[id].buffer] =
                       IF heap.storages[id].buffer = Internal THEN @ ELSE @ + 1]

Release(heap, name) == [StorageRelease(heap, heap.arrays[name].storage) EXCEPT !.arrays[name] = NoArray]

\* The result is made aside; the descriptor it replaces is released last.
CommitOutput(heap, out, d) == [Release(heap, out) EXCEPT !.arrays[out] = d]

Owned(id, dtype, shape) ==
  [storage |-> id, dtype |-> dtype, shape |-> shape, strides |-> ContiguousStrides(shape),
   offset |-> 0, own |-> TRUE, readonly |-> FALSE]

AllocateStatus(shape) == FirstStatus(<<ShapeStatus(shape), ContiguousStatus(shape)>>)

\* Cells in row-major order become an array of their own.
CommitOwned(heap, out, dtype, shape, cells) ==
  LET id == NewStorage(heap.storages) IN
  Done(CommitOutput(WithStorage(heap, id, cells, Internal), out, Owned(id, dtype, shape)))

\* Mutant: a view does not count as a reference.
CreateViewUncounted(heap, out, source, view) ==
  LET d == [view EXCEPT !.own = FALSE]
  IN When(heap, <<ValidateArray(heap.storages, d)>>, Done(CommitOutput(heap, out, d)))

\* A view is checked like any descriptor before it counts as a reference.
CreateView(heap, out, source, view) ==
  LET d == [view EXCEPT !.own = FALSE]
  IN When(heap, <<ValidateArray(heap.storages, d),
                  Must(heap.storages[d.storage].references < MaxSize, "overflow")>>,
          Done(CommitOutput(StorageRetain(heap, d.storage), out, d)))

\* The output is neither an input nor a view that shares a storage with one.
PrepareOutput(heap, out, inputs) ==
  LET d == heap.arrays[out] IN
  IF out \in ToSet(inputs) THEN "argument"
  ELSE IF d = NoArray THEN "ok"
  ELSE FirstStatus(<<Must(ValidateArray(heap.storages, d) = "ok", "argument"),
                 Must(\A i \in DOMAIN inputs : heap.arrays[inputs[i]].storage # d.storage, "argument")>>)

InputsStatus(heap, out, inputs) ==
  FirstStatus(<<PrepareOutput(heap, out, inputs)>>
    \o [i \in DOMAIN inputs |-> ValidateArray(heap.storages, heap.arrays[inputs[i]])])

\* An operation begins with its output and its inputs, and may refuse more.
Checked(heap, out, inputs, Operate(_)) ==
  When(heap, <<InputsStatus(heap, out, inputs)>>, Operate(heap.arrays[inputs[1]]))

-----------------------------------------------------------------------------
(* Making arrays.                                                           *)

FromValues(heap, out, dtype, shape, cells) ==
  When(heap, <<PrepareOutput(heap, out, <<>>), AllocateStatus(shape)>>,
       CommitOwned(heap, out, dtype, shape, cells))

Zeros(heap, out, dtype, shape) ==
  FromValues(heap, out, dtype, shape, [k \in 1..Product(shape) |-> 0])

\* The buffer, with its deleter, is the library's only when this succeeds.
FromBuffer(heap, out, buffer, dtype, cells, view) ==
  LET id == NewStorage(heap.storages)
      d == [storage |-> id, dtype |-> dtype, shape |-> view.shape,
            strides |-> IF view.strides = <<>> THEN ContiguousStrides(view.shape) ELSE view.strides,
            offset |-> view.offset, own |-> FALSE, readonly |-> view.readonly]
      held == WithStorage(heap, id, cells, buffer)
  IN When(heap, <<PrepareOutput(heap, out, <<>>), ShapeStatus(view.shape),
                  IF view.strides = <<>> THEN ContiguousStatus(view.shape) ELSE "ok",
                  ValidateArray(held.storages, d)>>,
          Done(CommitOutput(held, out, d)))

\* Elements are written through a descriptor that is not readonly: the caller
\* is given the data, and writes an element there is.
Write(heap, name, index, cell) ==
  LET d == heap.arrays[name] IN
  When(heap, <<ValidateArray(heap.storages, d), Must(~d.readonly, "argument")>>,
       Done(IF index >= Size(d) THEN heap
            ELSE [heap EXCEPT !.storages[d.storage].cells[LinearOffset(d, index) + 1] = cell]))

-----------------------------------------------------------------------------
(* Views.                                                                   *)

Share(heap, out, source) ==
  Checked(heap, out, <<source>>, LAMBDA s : CreateView(heap, out, s, s))

Reshaped(s, shape) == [s EXCEPT !.shape = shape, !.strides = ContiguousStrides(shape)]

ReshapeView(heap, out, source, shape) ==
  Checked(heap, out, <<source>>, LAMBDA s :
    When(heap, <<Must(IsContiguous(s), "unsupported"), ShapeStatus(shape),
                 Must(Product(shape) = Size(s), "argument"), ContiguousStatus(shape)>>,
         CreateView(heap, out, s, Reshaped(s, shape))))

Clamp(x, low, high) == IF x < low THEN low ELSE IF x > high THEN high ELSE x

\* A bound is <<>> or <<i>>; a negative one counts from the end.
Bound(bound, default, length, low, high) ==
  Clamp(IF bound = <<>> THEN default
        ELSE IF bound[1] < 0 THEN bound[1] + length ELSE bound[1], low, high)

SliceStart(length, slice) ==
  IF slice.step > 0 THEN Bound(slice.start, 0, length, 0, length)
  ELSE Bound(slice.start, length - 1, length, -1, length - 1)

SliceStop(length, slice) ==
  IF slice.step > 0 THEN Bound(slice.stop, length, length, 0, length)
  ELSE Bound(slice.stop, -1, length, -1, length - 1)

\* Mutant: the last step, which is not a whole one, is forgotten.
SliceCountOfWholeSteps(length, slice) ==
  LET distance == IF slice.step > 0 THEN SliceStop(length, slice) - SliceStart(length, slice)
                  ELSE SliceStart(length, slice) - SliceStop(length, slice)
  IN IF distance > 0 THEN distance \div (IF slice.step > 0 THEN slice.step ELSE -slice.step) ELSE 0

\* The count of elements between the bounds: what lies between them is their
\* distance in the direction of the step.
SliceCount(length, slice) ==
  LET step == slice.step
      distance == IF step > 0 THEN SliceStop(length, slice) - SliceStart(length, slice)
                  ELSE SliceStart(length, slice) - SliceStop(length, slice)
      magnitude == IF step > 0 THEN step ELSE -step
  IN IF distance > 0 THEN 1 + ((distance - 1) \div magnitude) ELSE 0

\* The offset is a size_t, and wraps where a view of nothing has strides that lead
\* out of its storage.
Sliced(s, axis, slice) ==
  LET count == SliceCount(s.shape[axis], slice) IN
  [s EXCEPT !.shape[axis] = count, !.strides[axis] = @ * slice.step,
            !.offset = IF count = 0 THEN @
                       ELSE (@ + SliceStart(s.shape[axis], slice) * s.strides[axis]) % (MaxSize + 1)]

\* Axes are numbered from 1 here.
SliceView(heap, out, source, axis, slice) ==
  Checked(heap, out, <<source>>, LAMBDA s :
    IF axis \notin DOMAIN s.shape \/ slice.step = 0 THEN Refused(heap, "argument")
    ELSE When(heap, <<Must(s.shape[axis] =< MaxStride /\ slice.step # -MaxStride - 1, "overflow"),
                      Must(s.strides[axis] * slice.step \in (-MaxStride - 1)..MaxStride, "overflow")>>,
              CreateView(heap, out, s, Sliced(s, axis, slice))))

\* The older slice: both bounds within the axis and a positive step.
SliceWithin(heap, out, source, axis, start, stop, step) ==
  IF \/ axis \notin DOMAIN heap.arrays[source].shape \/ step = 0 \/ start > stop
     \/ stop > heap.arrays[source].shape[axis] \/ stop > MaxStride \/ step > MaxStride
    THEN Refused(heap, "argument")
    ELSE SliceView(heap, out, source, axis, [start |-> <<start>>, stop |-> <<stop>>, step |-> step])

\* No axes means all of them, last first.
TransposeView(heap, out, source, axes) ==
  Checked(heap, out, <<source>>, LAMBDA s :
    LET order == IF axes = <<>> THEN Reverse([axis \in DOMAIN s.shape |-> axis]) ELSE axes IN
    When(heap, <<Must(ToSet(order) = DOMAIN s.shape /\ Len(order) = Len(s.shape), "argument")>>,
         CreateView(heap, out, s, [s EXCEPT !.shape = [axis \in DOMAIN order |-> s.shape[order[axis]]],
                                            !.strides = [axis \in DOMAIN order |-> s.strides[order[axis]]]])))

\* An axis that is new, or grows from one element, repeats it: stride 0.
Broadcast(s, shape) ==
  LET missing == Len(shape) - Len(s.shape) IN
  [s EXCEPT !.shape = shape, !.readonly = TRUE,
            !.strides = [axis \in DOMAIN shape |->
                           IF axis > missing /\ s.shape[axis - missing] = shape[axis]
                             THEN s.strides[axis - missing] ELSE 0]]

BroadcastsTo(s, shape) ==
  /\ Len(shape) >= Len(s.shape)
  /\ \A axis \in DOMAIN s.shape :
       s.shape[axis] \in {1, shape[axis + Len(shape) - Len(s.shape)]}

BroadcastView(heap, out, source, shape) ==
  Checked(heap, out, <<source>>, LAMBDA s :
    When(heap, <<Must(BroadcastsTo(s, shape), "argument"), ShapeStatus(shape)>>,
         CreateView(heap, out, s, Broadcast(s, shape))))

-----------------------------------------------------------------------------
(* Copies of chosen elements.                                               *)

ReshapeCopy(heap, out, source, shape) ==
  Checked(heap, out, <<source>>, LAMBDA s :
    When(heap, <<ShapeStatus(shape), Must(Product(shape) = Size(s), "argument"), AllocateStatus(shape)>>,
         CommitOwned(heap, out, s.dtype, shape, Elements(heap.storages, s))))

\* The places where a mask is set, found from the first on.
TrueIndices(mask) ==
  LET T[n \in 0..Len(mask)] ==
        IF n = 0 THEN <<>> ELSE IF mask[n] = 1 THEN Append(T[n - 1], n) ELSE T[n - 1]
  IN T[Len(mask)]

BooleanMask(heap, out, source, mask) ==
  Checked(heap, out, <<source, mask>>, LAMBDA s :
    LET m == heap.arrays[mask]
        taken == TrueIndices(Elements(heap.storages, m))
        elements == Elements(heap.storages, s)
    IN When(heap, <<Must(m.dtype = "bool" /\ m.shape = s.shape, "argument")>>,
            CommitOwned(heap, out, s.dtype, <<Len(taken)>>, [k \in DOMAIN taken |-> elements[taken[k]]])))

NonZero(heap, out, mask) ==
  Checked(heap, out, <<mask>>, LAMBDA m :
    LET taken == TrueIndices(Elements(heap.storages, m)) IN
    When(heap, <<Must(m.dtype = "bool", "type")>>,
         CommitOwned(heap, out, "int64", <<Len(taken)>>, [k \in DOMAIN taken |-> taken[k] - 1])))

Where(heap, out, condition, whenTrue, whenFalse) ==
  Checked(heap, out, <<condition, whenTrue, whenFalse>>, LAMBDA c :
    LET t == heap.arrays[whenTrue]
        f == heap.arrays[whenFalse]
        CellsOf(d) == Elements(heap.storages, d)
    IN When(heap, <<Must(c.dtype = "bool", "type"),
                    Must(c.shape = t.shape /\ t.shape = f.shape, "argument"),
                    Must(t.dtype = f.dtype, "type"),
                    AllocateStatus(t.shape)>>,
            CommitOwned(heap, out, t.dtype, t.shape,
              [k \in 1..Size(t) |-> IF CellsOf(c)[k] = 1 THEN CellsOf(t)[k] ELSE CellsOf(f)[k]])))

-----------------------------------------------------------------------------
(* What is promised of a heap, whatever was called: of the buffers that were *)
(* adopted and the storages that were retained, with their times.            *)

IsDescriptor(d) ==
  /\ d = [storage |-> d.storage, dtype |-> d.dtype, shape |-> d.shape, strides |-> d.strides,
          offset |-> d.offset, own |-> d.own, readonly |-> d.readonly]
  /\ d.shape \in Seq(Nat) /\ d.strides \in Seq(Int) /\ Len(d.strides) = Len(d.shape)
  /\ d.offset \in Int /\ d.storage \in Nat

AreCells(cells) == Len(cells) \in Nat /\ cells = [i \in 1..Len(cells) |-> cells[i]]

IsStorage(s) ==
  /\ s = [cells |-> s.cells, references |-> s.references, buffer |-> s.buffer]
  /\ AreCells(s.cells) /\ s.references \in Nat

HeapTyped(heap) ==
  /\ heap = [arrays |-> heap.arrays, storages |-> heap.storages, deleted |-> heap.deleted]
  /\ heap.arrays = [name \in DOMAIN heap.arrays |-> heap.arrays[name]]
  /\ heap.storages = [id \in DOMAIN heap.storages |-> heap.storages[id]]
  /\ heap.deleted \in [DOMAIN heap.deleted -> Nat]
  /\ IsFiniteSet(DOMAIN heap.arrays)
  /\ IsFiniteSet(DOMAIN heap.storages) /\ DOMAIN heap.storages \subseteq Nat \ {NoStorage}
  /\ \A name \in DOMAIN heap.arrays : IsDescriptor(heap.arrays[name])
  /\ \A id \in DOMAIN heap.storages :
       IsStorage(heap.storages[id]) /\ heap.storages[id].buffer \in {Internal} \cup DOMAIN heap.deleted

LiveIn(heap) == {name \in DOMAIN heap.arrays : heap.arrays[name] # NoArray}
LookAt(heap, id) == {name \in LiveIn(heap) : heap.arrays[name].storage = id}
HeldBy(heap, buffer) == {id \in DOMAIN heap.storages : heap.storages[id].buffer = buffer}
TimesRetained(retained, id) == Cardinality({n \in DOMAIN retained : retained[n] = id})

\* Every live descriptor can be read through: its storage is there, and all its
\* elements lie within it.
Readable(heap) ==
  \A name \in LiveIn(heap) :
    LET d == heap.arrays[name] IN
    /\ d.storage \in DOMAIN heap.storages
    /\ ValidateArray(heap.storages, d) = "ok"
    /\ \A index \in 0..(Size(d) - 1) :
         LinearOffset(d, index) \in 0..(Len(heap.storages[d.storage].cells) - 1)

\* A storage counts those that look at it and the times it was retained, and is
\* there as long as there is one.
Counted(heap, retained) ==
  \A id \in DOMAIN heap.storages :
    /\ heap.storages[id].references = Cardinality(LookAt(heap, id)) + TimesRetained(retained, id)
    /\ heap.storages[id].references > 0

\* The deleter of a buffer runs once, when nothing holds it any more.
DeletedOnce(heap, adopted) ==
  \A buffer \in DOMAIN heap.deleted \ {Internal} :
    heap.deleted[buffer] = IF buffer \in adopted /\ HeldBy(heap, buffer) = {} THEN 1 ELSE 0

\* One storage holds a buffer, which was adopted; what was retained stays.
HeldOnce(heap, adopted, retained) ==
  /\ \A id \in DOMAIN heap.storages :
       heap.storages[id].buffer # Internal =>
         /\ heap.storages[id].buffer \in adopted
         /\ HeldBy(heap, heap.storages[id].buffer) = {id}
  /\ \A n \in DOMAIN retained : retained[n] \in DOMAIN heap.storages

HeapSound(heap, adopted, retained) ==
  /\ HeapTyped(heap)
  /\ Readable(heap)
  /\ Counted(heap, retained)
  /\ DeletedOnce(heap, adopted)
  /\ HeldOnce(heap, adopted, retained)
=================================================================================
