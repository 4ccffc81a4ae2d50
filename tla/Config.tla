------------------------------- MODULE Config --------------------------------
(***************************************************************************)
(* The configuration that is compiled into a network function (config.c,   *)
(* config.h): a sequence of items, each a name and a value.                *)
(***************************************************************************)
EXTENDS Memory

CONSTANTS UINT32_MAX, UINT16_MAX        \* SIZE_MAX is also UINT64_MAX

ASSUME WidthsAssumption ==
  /\ UINT32_MAX \in Nat /\ UINT16_MAX \in Nat
  /\ UINT16_MAX <= UINT32_MAX /\ UINT32_MAX <= SIZE_MAX
  /\ 2 * UINT16_MAX * UINT16_MAX <= SIZE_MAX

TIME_MIN == 0
TIME_MAX == SIZE_MAX

Item(name, value) == [name |-> name, value |-> value]

\* What can be compiled into the program: names and unsigned values.
ItemType == [name : STRING, value : 0 .. SIZE_MAX]

\* What a read that failed leaves; values are unsigned.
NoValue == -1

\* The first item of a name counts.
os_config_try_get(items, name) ==
  LET IsFirst(i) == /\ items[i].name = name
                    /\ \A k \in 1 .. i - 1 : items[k].name # name
  IN  IF \A i \in 1 .. Len(items) : items[i].name # name THEN NoValue
      ELSE items[CHOOSE i \in 1 .. Len(items) : IsFirst(i)].value

AsSigned(v) == IF 2 * v > SIZE_MAX THEN v - SIZE_MAX - 1 ELSE v

\* Both ends of the range are in it.  The least value is a signed one.
os_config_get(items, name, min, max) ==
  LET value == os_config_try_get(items, name)
  IN  IF value = NoValue THEN NoValue
      ELSE IF min # 0 /\ AsSigned(value) < AsSigned(min) THEN NoValue
      ELSE IF value <= max THEN value ELSE NoValue

\* Mutated form of MaxSize: half the room that the structures need.
MaxSize_Half == SIZE_MAX \div 32

\* The largest size that os_config_get_size accepts.
MaxSize == SIZE_MAX \div 64

os_config_get_u64(items, name)  == os_config_get(items, name, 0, SIZE_MAX)
os_config_get_u32(items, name)  == os_config_get(items, name, 0, UINT32_MAX)
os_config_get_u16(items, name)  == os_config_get(items, name, 0, UINT16_MAX)
os_config_get_size(items, name) == os_config_get(items, name, 0, MaxSize)
os_config_get_time(items, name) == os_config_get(items, name, TIME_MIN, TIME_MAX)
os_config_get_device(items, name, devices_count) ==
  os_config_get(items, name, 0, devices_count - 1)

=============================================================================
