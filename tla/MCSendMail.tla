----------------------------- MODULE MCSendMail -----------------------------
(* Instances of SendMail for TLC: main threads of three processes, whose    *)
(* taken flag is clear, or three added threads of one process.              *)
EXTENDS SendMail

MCMain    == {<<0, 0>>, <<1, 0>>, <<2, 0>>, <<3, 0>>}
MCTask0   == {<<0, 0>>}
MCAdded   == {<<0, 0>>, <<1, 1>>, <<1, 2>>, <<1, 3>>}
MCNoPost  == {}
=============================================================================
