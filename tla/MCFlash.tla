------------------------------ MODULE MCFlash ------------------------------
(* Flash for TLC: sound files, files of every defect, chips of four sizes. *)
EXTENDS Flash
B(sound, num, no, rp) == [sound |-> sound, num |-> num, no |-> no, rp |-> rp]
F(blocks) == [uf2 |-> TRUE, even |-> TRUE, blocks |-> blocks]
Good(n) == F([i \in 1..n |-> B(TRUE, n, i - 1, TRUE)])
Defects == {
  [uf2 |-> FALSE, even |-> TRUE, blocks |-> <<>>],
  [uf2 |-> TRUE, even |-> FALSE, blocks |-> Good(1).blocks],
  F(<<B(TRUE, 3, 0, TRUE), B(TRUE, 3, 1, TRUE)>>),
  F(<<B(TRUE, 2, 0, TRUE), B(FALSE, 2, 1, TRUE)>>),
  F(<<B(TRUE, 2, 0, TRUE), B(TRUE, 2, 0, TRUE)>>),
  F(<<B(TRUE, 2, 0, TRUE), B(TRUE, 2, 1, FALSE)>>),
  F(<<B(TRUE, 1, 0, FALSE)>>) }
SomeFiles == {Good(1), Good(3)} \cup Defects
TwoImages == {
  [where |-> "flash", page |-> 0, size |-> 128], [where |-> "flash", page |-> 1, size |-> 65],
  [where |-> "beside", page |-> 0, size |-> 64], [where |-> "elsewhere", page |-> 0, size |-> 64],
  [where |-> "flash", page |-> 0, size |-> 0], [where |-> "flash", page |-> 0, size |-> 16385] }
Chips == {128, 200, 1152, 6272}
Mix(u, c, l, t, n) == [uf2 |-> u, ch32 |-> c, led |-> l, trim |-> t, cell |-> n]
Mixes == {Mix(2, 0, 0, 0, 0), Mix(0, 2, 0, 0, 0), Mix(0, 0, 2, 1, 3), Mix(1, 0, 0, 0, 2)}
Cells == {1660, 1690, 1900}
=============================================================================
