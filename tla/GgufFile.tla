------------------------------- MODULE GgufFile -------------------------------
(***************************************************************************)
(* The checks that stand between a GGUF file and the rows read from it:    *)
(* GgufModel::Impl and tensor() of src/src/minillm/gguf_model.cpp, and     *)
(* matrix() of qwen3_model.cpp.  A file is a record of its size, the       *)
(* offset of its data and its tensors by name; a tensor one of its offset  *)
(* and size as the GGUF library reports them, its type and its dimensions. *)
(* All are numbers that fit a size_t, and nothing else is known of them.   *)
(***************************************************************************)
EXTENDS Integers

CONSTANTS SizeMax,      \* the largest size_t
          ExtentMax     \* the largest dimension that the metadata may state

\* The widest row that a model can have is one of heads * head_dim columns.
ASSUME FileAssumption ==
  /\ SizeMax \in Nat /\ ExtentMax \in Nat \ {0}
  /\ 4 * (ExtentMax * ExtentMax) <= SizeMax

\* What decode_row() reads of a row: a row of Q8_0 is whole blocks of 32
\* elements in 34 bytes.
RowSize(type, columns) ==
  CASE type = "F32"  -> columns * 4
    [] type = "F16"  -> columns * 2
    [] type = "Q8_0" -> (columns \div 32) * 34

\* row_bytes(), which may wrap around.
RowBytes(type, columns) == RowSize(type, columns) % (SizeMax + 1)

\* Slip: the sum of the three is compared, and wraps around.
InsideWrapping(file, t) == (file.base + t.offset + t.bytes) % (SizeMax + 1) <= file.size

\* The constructor's check, in subtractions that cannot wrap.
Inside(file, t) ==
  /\ file.base <= file.size
  /\ t.offset <= file.size - file.base
  /\ t.bytes <= file.size - file.base - t.offset

\* tensor(): the rows fill the bytes exactly.
Viewable(t) ==
  /\ t.type \in {"F32", "F16", "Q8_0"} /\ (t.type = "Q8_0" => t.columns % 32 = 0)
  /\ t.rows > 0 /\ t.columns > 0
  /\ RowBytes(t.type, t.columns) > 0
  /\ t.rows <= SizeMax \div RowBytes(t.type, t.columns)
  /\ t.rows * RowBytes(t.type, t.columns) = t.bytes

\* matrix(): the tensor has the shape that the metadata calls for.
Shaped(t, rows, columns) == t.rows = rows /\ t.columns = columns

\* TensorView::row()
RowStart(file, t, row) == file.base + t.offset + row * RowBytes(t.type, t.columns)

\* Every row of a tensor that a model uses lies inside the mapped file, to
\* the last byte that is decoded.
RowsInside(file, t) ==
  \A row \in 0..(t.rows - 1) :
    RowStart(file, t, row) + RowSize(t.type, t.columns) <= file.size
=============================================================================
