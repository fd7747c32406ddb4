------------------------------- MODULE SmsText -------------------------------
(* The text of an SMS as sendPduMessage of src/MobileServer/src/AtCommand.cpp puts   *)
(* it together: hexadecimal digits that the modem reads as a service centre and an    *)
(* SMS-SUBMIT.  A text of hexadecimal digits is a sequence of 0..15; a number is       *)
(* its digits and whether it has a "+"; a message is a sequence of code points.        *)
EXTENDS Integers, Sequences

Octet(n) == <<n \div 16, n % 16>>                      \* "%02x", below 256
Hex4(n) == Octet(n \div 256) \o Octet(n % 256)         \* "%04x", below 65536

International == <<9, 1>>
National == <<8, 1>>
Filler == 15

(* phonenum_parity_exchange: pairs of digits are swapped; an odd one gets "f".          *)
Exchange(digits) ==
  LET even == IF Len(digits) % 2 = 1 THEN Append(digits, Filler) ELSE digits
  IN [i \in DOMAIN even |-> even[IF i % 2 = 1 THEN i + 1 ELSE i - 1]]

(* get_sms_center: the text between the quotes of the answer to AT+CSCA?, without its    *)
(* first character, which is taken for "+".  Its failure is not looked at: no digits.    *)
AfterPlus(number) == IF number.plus THEN number.digits ELSE Tail(number.digits)
SmsCenter(answered, number) ==
  IF ~answered THEN <<>>
  ELSE LET address == Exchange(AfterPlus(number))
       IN Octet((Len(address) + 2) \div 2) \o International \o address

(* get_sms_dest: SMS-SUBMIT, reference 0, the destination, UCS-2, valid for 5 minutes.   *)
CountWithFiller(digits) == Len(Exchange(digits))
Count(digits) == Len(digits)
SmsDest(number) ==
  <<1, 1, 0, 0>> \o Octet(Count(number.digits))
  \o (IF number.plus THEN International ELSE National)
  \o Exchange(number.digits) \o <<0, 0, 0, 8, 0, 0>>

(* ConverToUnicode: four digits for each code point of the basic plane.                  *)
ToUnicode(points) ==
  LET text == [i \in 1..(4 * Len(points)) |->
                 Hex4(points[(i + 3) \div 4])[((i - 1) % 4) + 1]]
  IN Octet(Len(text) \div 2) \o text

(* What sendPduMessage sends: the length in AT+CMGS, then the text.                       *)
SendPduMessage(answered, center, number, points) ==
  LET dest == SmsDest(number)
      text == ToUnicode(points)
  IN [cmgs |-> (Len(dest) + Len(text)) \div 2,
      data |-> SmsCenter(answered, center) \o dest \o text]

-------------------------------------------------------------------------------
(* External: how a modem reads such a text (3GPP TS 23.040).                              *)

OctetAt(pdu, i) == 16 * pdu[2 * i - 1] + pdu[2 * i]
Octets(pdu, from, count) == SubSeq(pdu, 2 * from - 1, 2 * (from + count - 1))

(* The semi-octets of an address of so many digits.                                        *)
Digits(semi, count) == [i \in 1..count |-> semi[IF i % 2 = 1 THEN i + 1 ELSE i - 1]]

(* The service centre: its length counts octets, the type included.                        *)
CenterOctets(pdu) == OctetAt(pdu, 1)
ReadCenter(pdu) ==
  LET semi  == Octets(pdu, 3, CenterOctets(pdu) - 1)
      count == IF semi[Len(semi) - 1] = Filler THEN Len(semi) - 1 ELSE Len(semi)
  IN Digits(semi, count)

(* What follows is the SMS-SUBMIT: octet 3 of it counts the digits of the destination.      *)
Submit(pdu) == SubSeq(pdu, 2 * CenterOctets(pdu) + 3, Len(pdu))
DestOctets(submit) == (OctetAt(submit, 3) + 1) \div 2
ReadNumber(submit) ==
  [plus |-> Octets(submit, 4, 1) = International,
   digits |-> Digits(Octets(submit, 5, DestOctets(submit)), OctetAt(submit, 3))]

(* PID, DCS and validity, then the count of the octets of the text and the text.            *)
ReadText(submit) ==
  LET count == 8 + DestOctets(submit)
  IN [i \in 1..(OctetAt(submit, count) \div 2) |->
        256 * OctetAt(submit, count + 2 * i - 1) + OctetAt(submit, count + 2 * i)]

===============================================================================
