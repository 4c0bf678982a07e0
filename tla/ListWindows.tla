---------------------------- MODULE ListWindows ----------------------------
(***************************************************************************)
(* list_interfaces of list_win.rs. GetAdaptersAddresses copies a linked    *)
(* list of adapters into a buffer whose size it is told; if they do not    *)
(* fit it says how much they need, the buffer is resized and the call is   *)
(* repeated, for as long as adapters keep coming. The copy is then walked  *)
(* adapter by adapter.                                                     *)
(*                                                                         *)
(* MCListInterfaces has this module and ListUnix side by side, so that     *)
(* their variables and specifications have names of their own.             *)
(***************************************************************************)
EXTENDS SequencesExt, IpHelper

VARIABLES
  adapters,      \* the adapters there are
  phase,         \* the listing
  sizepointer,   \* the size GetAdaptersAddresses is told
  buffer,        \* the size of buf
  rest,          \* the adapters in buf from adapter_ptr on
  ifs,           \* the interfaces collected: ips by index
  copied         \* ghost: what was copied into buf

windowsVars == <<adapters, phase, sizepointer, buffer, rest, ifs, copied>>

WindowsInit ==
  /\ adapters \in Adapters
  /\ phase = "call"
  /\ sizepointer = StartSize
  /\ buffer = StartSize
  /\ rest = <<>>
  /\ ifs = [i \in {} |-> {}]
  /\ copied = <<>>

(* An adapter appears, or one disappears. Once they are copied that is     *)
(* nothing to the listing, and is left out.                                *)
AdaptersChange ==
  /\ phase = "call"
  /\ adapters' \in {Append(adapters, a) : a \in Adapter}
                    \cup {RemoveAt(adapters, k) : k \in DOMAIN adapters}
  /\ adapters' \in Adapters
  /\ UNCHANGED <<phase, sizepointer, buffer, rest, ifs, copied>>

(* The call fails for a reason other than the size of the buffer.          *)
CallFails ==
  /\ phase = "call"
  /\ phase' = "error"
  /\ UNCHANGED <<adapters, sizepointer, buffer, rest, ifs, copied>>

NoData ==
  /\ phase = "call"
  /\ adapters = <<>>
  /\ phase' = "done"
  /\ UNCHANGED <<adapters, sizepointer, buffer, rest, ifs, copied>>

(* Slip: the new size is passed on, the buffer stays as it is.             *)
BufferOverflowUnresized ==
  /\ phase = "call"
  /\ Size(adapters) > sizepointer
  /\ sizepointer' = Size(adapters)
  /\ UNCHANGED <<adapters, phase, buffer, rest, ifs, copied>>

(* Slip: the buffer grows once, to a size found out beforehand.            *)
BufferOverflowOnce ==
  /\ phase = "call"
  /\ Size(adapters) > sizepointer
  /\ sizepointer' = IF sizepointer = StartSize THEN Size(adapters) ELSE sizepointer
  /\ buffer' = sizepointer'
  /\ UNCHANGED <<adapters, phase, rest, ifs, copied>>

BufferOverflow ==
  /\ phase = "call"
  /\ Size(adapters) > sizepointer
  /\ sizepointer' = Size(adapters)
  /\ buffer' = sizepointer'
  /\ UNCHANGED <<adapters, phase, rest, ifs, copied>>

(* The adapters are written to the buffer.                                 *)
CallSucceeds ==
  /\ phase = "call"
  /\ adapters # <<>>
  /\ Size(adapters) <= sizepointer
  /\ copied' = adapters
  /\ rest' = adapters
  /\ phase' = "walk"
  /\ UNCHANGED <<adapters, sizepointer, buffer, ifs>>

(* Slip: an adapter that is known for IPv6 only is passed over.            *)
SkippedWithoutIPv4(a) == a.status = "down" \/ a.IfIndex = 0

Skipped(a) == a.status = "down" \/ IfIndexOf(a) = 0

(* One round of the walk.                                                  *)
VisitAdapter ==
  /\ phase = "walk"
  /\ rest # <<>>
  /\ LET a == Head(rest)
     IN  ifs' = IF Skipped(a) THEN ifs
                ELSE [i \in DOMAIN ifs \cup {IfIndexOf(a)} |->
                        IF i = IfIndexOf(a) THEN a.ips ELSE ifs[i]]
  /\ rest' = Tail(rest)
  /\ UNCHANGED <<adapters, phase, sizepointer, buffer, copied>>

WalkEnds ==
  /\ phase = "walk"
  /\ rest = <<>>
  /\ phase' = "done"
  /\ UNCHANGED <<adapters, sizepointer, buffer, rest, ifs, copied>>

Listing == NoData \/ BufferOverflow \/ CallSucceeds \/ VisitAdapter \/ WalkEnds

WindowsNext ==
  \/ AdaptersChange
  \/ CallFails
  \/ Listing

(* The thread that lists is scheduled; no call has to fail.                *)
WindowsSpec == WindowsInit /\ [][WindowsNext]_windowsVars /\ WF_windowsVars(Listing)

-----------------------------------------------------------------------------
(* Properties.                                                             *)

(* The IP helper is never told of a buffer larger than there is, and never *)
(* writes past its end.                                                    *)
BufferIsNeverOverrun == sizepointer <= buffer /\ Size(copied) <= buffer

(* What is listed is every adapter of one moment that is not down and has  *)
(* an index, with all its addresses: no adapter hides another.             *)
ListingIsASnapshot ==
  phase = "done" =>
    \A i \in IfIndices :
      LET of == {k \in DOMAIN copied :
                   copied[k].status # "down" /\ i \in {copied[k].IfIndex, copied[k].Ipv6IfIndex}}
      IN  /\ i \in DOMAIN ifs <=> of # {}
          /\ \A k \in of : ifs[i] = copied[k].ips

(* However often adapters come and go while it is asked for, the listing   *)
(* ends: the buffer only grows.                                            *)
ListingEnds == <>(phase \in {"done", "error"})

=============================================================================
