---------------------------- MODULE FlowRanges ----------------------------
(***************************************************************************)
(* The arithmetic of the flow configuration: how many source addresses,    *)
(* destination addresses and UDP ports a chain uses so that their least    *)
(* common multiple is the flow count asked for (Device.limit_ip_udp_ranges *)
(* and its helpers in utils.py).                                           *)
(*                                                                         *)
(* A chain's flow count may be zero or negative here: the caller does not  *)
(* exclude it.                                                             *)
(***************************************************************************)
EXTENDS Integers, FiniteSets

Magnitude(n) == IF n < 0 THEN -n ELSE n

(* get_divisors; 0 and a negative number have themselves only. *)
Divisors(n) == IF n <= 0 THEN {n} ELSE {d \in 1..n : n % d = 0}

CommonDivisors(a, b) == {d \in 1..Magnitude(a) : a % d = 0 /\ b % d = 0}

Gcd(a, b) == CHOOSE d \in CommonDivisors(a, b) :
               \A e \in CommonDivisors(a, b) : e <= d

(* lcm, for arguments other than 0: with 0 the code raises TypeError. *)
Lcm(a, b) == (a * b) \div Gcd(a, b)

(* find_tuples_equal_to_lcm_value *)
Tuples(A, B, value) == {p \in A \X B : Lcm(p[1], p[2]) = value}

(* tuples[-1]: both lists ascend, so the last pair is the greatest. *)
Last(tuples) == CHOOSE p \in tuples :
  \A q \in tuples : q[1] < p[1] \/ (q[1] = p[1] /\ q[2] <= p[2])

(* find_max_size *)
MaxSize(size, tuples, flow) ==
  IF tuples # {} /\ size > Last(tuples)[1] THEN Last(tuples)[1]
  ELSE IF tuples # {} /\ size > Last(tuples)[2] THEN Last(tuples)[2]
  ELSE LET fits == {i \in 2..size : flow % i = 0}
       IN IF fits = {} THEN 1 ELSE CHOOSE i \in fits : \A j \in fits : j <= i

(* The size of one range when no tuple decides it. *)
Fitting(size, tuples, flow) ==
  IF size = 1 THEN 1
  ELSE IF size > flow THEN flow
  ELSE MaxSize(size, tuples, flow)

(* range(udp.src_min, udp.src_max): the port numbers but the last.  The    *)
(* code tries them as sizes.                                               *)
PortNumbers(udp) == udp.min .. (udp.max - 1)

Sizes(ip, peer, src, dst) == [ip |-> ip, peer |-> peer, src |-> src, dst |-> dst]

(* limit_ip_udp_ranges: the new sizes of the source addresses (out of ip), *)
(* the destination addresses (out of peer) and the UDP ports (out of src   *)
(* and dst, records with min, max and size).                               *)
LimitedSizes(ip, peer, src, dst, flow) ==
  LET ips == Tuples(Divisors(ip), Divisors(peer), flow)
      udps == Tuples(Divisors(src.size), Divisors(dst.size), flow)
      srcs1 == Tuples(Divisors(ip), PortNumbers(src), flow)
      dsts1 == Tuples(Divisors(peer), PortNumbers(dst), flow)
      second == srcs1 = {} /\ dsts1 = {}
      srcs == IF second THEN Tuples(1..(ip - 1), PortNumbers(src), flow) ELSE srcs1
      dsts == IF second THEN Tuples(1..(peer - 1), PortNumbers(dst), flow) ELSE dsts1
      ports == ips = {} /\ udps = {} /\ (srcs # {} \/ dsts # {})
  IN IF ports
     THEN Sizes(IF srcs # {} THEN Last(srcs)[1] ELSE 1,
                IF dsts # {} THEN Last(dsts)[1] ELSE 1,
                IF srcs # {} THEN Last(srcs)[2] ELSE 1,
                IF dsts # {} THEN Last(dsts)[2] ELSE 1)
     ELSE Sizes(IF ips # {} THEN Last(ips)[1] ELSE Fitting(ip, udps, flow),
                IF ips # {} THEN Last(ips)[2] ELSE Fitting(peer, udps, flow),
                IF udps # {} THEN Last(udps)[1] ELSE Fitting(src.size, ips, flow),
                IF udps # {} THEN Last(udps)[2] ELSE Fitting(dst.size, ips, flow))

(* A 0 among the sizes: one of the calls of lcm raises TypeError. *)
LcmRaises(ip, peer, src, dst, flow) ==
  \/ peer = 0
  \/ LET s == LimitedSizes(ip, peer, src, dst, flow)
     IN 0 \in {s.ip, s.peer, s.src, s.dst}

(* max_possible_flows *)
MaxPossibleFlows(s) == Lcm(Lcm(s.ip, s.peer), Lcm(s.src, s.dst))

(* Device.check_range_size *)
RangeSize(size, step) ==
  IF size % step = 0 THEN size \div step ELSE size \div step + 1
=============================================================================
