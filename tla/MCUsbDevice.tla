----------------------------- MODULE MCUsbDevice -----------------------------
(* UsbDevice for TLC: the configurations a device may have and its reports. *)
EXTENDS UsbDevice

Ep(n, in, type, every) ==
  [number |-> n, dir_in |-> in, type |-> type, interval |-> every]
In(n)   == Ep(n, TRUE, "interrupt", <<10, 1, 16>>[n])
Out(n)  == Ep(n, FALSE, "interrupt", 7)
Bulk(n) == Ep(n, TRUE, "bulk", 0)
Hid     == [hid |-> TRUE]
For(driver, eps) == <<[driver |-> driver, endpoints |-> Len(eps)]>>
Mouse(eps)    == For("mouse", eps) \o <<Hid>> \o eps
Keyboard(eps) == For("keyboard", eps) \o <<Hid>> \o eps
Other(eps)    == For("none", eps) \o eps

(* One endpoint; input and output under one number and under two; three    *)
(* numbers; another function before the HID one and after it; two boot     *)
(* interfaces, of which only the first gets a driver; all 15 numbers; a    *)
(* device no class driver is for.                                          *)
AllConfigurations ==
  { Keyboard(<<In(1)>>),
    Mouse(<<In(1), Out(1)>>),
    Mouse(<<In(1), Out(2)>>),
    Mouse(<<In(1), Bulk(2), In(3)>>),
    Other(<<Bulk(1)>>) \o Mouse(<<In(2)>>),
    Mouse(<<In(2)>>) \o Other(<<Bulk(1)>>),
    Keyboard(<<In(1)>>) \o Mouse(<<In(2)>>),
    Mouse([n \in 1..15 |-> IF n < 3 THEN In(n) ELSE Bulk(n)]),
    Other(<<Bulk(1)>>) }

(* Right Shift's modifier bit is also the code of the key 3 (32).  A mouse *)
(* may move by -1 (255) and may send its buttons only.                     *)
AllReports(driver) ==
  IF driver = "keyboard"
  THEN {<<m, 0, k, l, 0, 0, 0, 0>> : m \in {0, 32}, k \in {0, 4}, l \in {0, 32}}
  ELSE {<<0, 1, 255>>, <<1>>}

(* Any report into any buffer; a fourth one adds nothing new.              *)
Onto(bufs) == bufs \cup {CopyN(r, Len(r), b) :
                 r \in AllReports("keyboard") \cup AllReports("mouse"), b \in bufs}
AllBuffers == Onto(Onto(Onto({Zeros})))
=============================================================================
