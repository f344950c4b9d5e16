------------------------------ MODULE Transpose ------------------------------
(***************************************************************************)
(* The matrix transposes of src/Lab3/trans.c and the check that            *)
(* tracegen-ct makes of them.  A is an N x M matrix, B the M x N matrix    *)
(* that receives it.  Every entry of A is another value, as the random     *)
(* entries of initMatrix are in practice; entries of B not written keep    *)
(* an old value, which is none of A's.                                     *)
(***************************************************************************)
EXTENDS Integers

Cells(rows, cols) == (0 .. rows - 1) \X (0 .. cols - 1)

\* initMatrix
InitialA(M, N) == [c \in Cells(N, M) |-> c]
Old == <<-1, -1>>

\* B after `B[j][i] = A[i][j]' was executed for the cells in `done'.
Written(M, N, done) ==
    [c \in Cells(M, N) |-> IF <<c[2], c[1]>> \in done THEN InitialA(M, N)[<<c[2], c[1]>>] ELSE Old]

\* trans_basic, and trans_tmp, which takes each entry through tmp.
TransBasic(M, N) == Written(M, N, Cells(N, M))

\* The blocked loops: ii and jj below M/8, blocks of M/d rows and columns.
FaultyBlocked(M, N, d) ==
    Written(M, N, {c \in Cells(N, M) : \E ii, jj \in 0 .. M \div 8 - 1 :
        /\ c[1] \in (M \div d) * ii .. (M \div d) * (ii + 1) - 1
        /\ c[2] \in (M \div d) * jj .. (M \div d) * (jj + 1) - 2})
Blocked(M, N, d) ==
    Written(M, N, {c \in Cells(N, M) : \E ii, jj \in 0 .. M \div 8 - 1 :
        /\ c[1] \in (M \div d) * ii .. (M \div d) * (ii + 1) - 1
        /\ c[2] \in (M \div d) * jj .. (M \div d) * (jj + 1) - 1})

TransposeSubmit(M, N) ==
    CASE M = 32 /\ N = 32 -> Blocked(M, N, 4)
      [] M = 1024 /\ N = 1024 -> Blocked(M, N, 128)
      [] OTHER -> TransBasic(M, N)

\* correctTrans and validate: A is never written, so only B is compared.
Validate(M, N, B) == \A i \in 0 .. N - 1, j \in 0 .. M - 1 : B[<<j, i>>] = InitialA(M, N)[<<i, j>>]
=============================================================================
