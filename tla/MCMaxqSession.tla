--------------------------- MODULE MCMaxqSession ----------------------------
(***************************************************************************)
(* Instances of MaxqSession: a memory of 16 places in two pages, cut into  *)
(* pieces of four bytes.                                                   *)
(***************************************************************************)
EXTENDS MaxqSession

Data(a, bytes) == [type |-> "00", addr |-> a, bytes |-> bytes]
Extended(n)    == [type |-> "04", addr |-> 0, bytes |-> <<n>>]
Segment(n)     == [type |-> "02", addr |-> 0, bytes |-> <<n>>]
End            == [type |-> "01", addr |-> 0, bytes |-> <<>>]
Wrong          == [type |-> "bad", addr |-> 0, bytes |-> <<>>]

MCFiles == {
  <<End>>,                                            \* no data
  <<Data(1, <<1, 2, 3, 4>>), End>>,                   \* across two pieces
  <<Data(0, <<1, 2, 3, 4>>), Data(4, <<5>>), End>>,   \* a last byte alone
  <<Data(2, <<1, Blank>>), Extended(1), Data(3, <<2, 3>>), End>>,
  <<Extended(1), Data(0, <<1, 2>>), Extended(0), Data(6, <<3, 4>>), End>>,
  <<Data(0, <<1, 2>>), Segment(1), Data(0, <<3, 4>>), End>>,
  <<Data(5, <<1>>), Wrong>> }
=============================================================================
