---------------------------- MODULE MCDeviceTable -----------------------------
EXTENDS DeviceTable

N(name, bs, blocks, ids, sh) ==
    [name |-> name, block |-> bs, blocks |-> blocks, ids |-> ids, shared |-> sh]
D(of, dev) == [of |-> of, dev |-> dev]

(* Sources with a device each, one that leaves the block size open, one    *)
(* with blocks of its own size.                                            *)
MCNatives == {N(-1, 1, 3, {1}, FALSE), N(-2, 0, 4, {1}, FALSE), N(-3, 2, 5, {1}, FALSE)}
SharedNatives == {N(-1, 1, 3, {1}, FALSE), N(-2, 0, 4, {1}, TRUE)}
OneNative == {N(-1, 1, 3, {1}, FALSE)}

(* An image of two devices, made by another tool.                          *)
Layered == [name |-> 1, block |-> 1,
            slots |-> <<[what |-> D(1, 1), blocks |-> 6], [what |-> D(1, 2), blocks |-> 7]>>,
            chunks |-> {[file |-> <<1, 1>>, from |-> D(1, 1), unit |-> 1, dev |-> 1],
                        [file |-> <<1, 2>>, from |-> D(1, 2), unit |-> 1, dev |-> 2]}]
OneLayered == <<Layered>>
NoGiven == <<>>
===============================================================================
