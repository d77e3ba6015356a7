------------------------------ MODULE Wrappers ------------------------------
(***************************************************************************)
(* The wrappers that share no state with one another, each over the part   *)
(* of ESP-IDF or FreeRTOS it wraps.  A behaviour of this module is one of  *)
(* one of them, the others standing still: with nothing shared, nothing    *)
(* one of them does can depend on where another is.                        *)
(***************************************************************************)
EXTENDS FatVolumes, Tasks, AwsIot, Ota, Ds18b20, I2c, Nvs, Uart, Timers, Eth, Sntp

VARIABLE component   \* the one that moves

wrapperVars == <<volumeVars, taskVars, awsVars, otaVars, sensorVars, i2cVars, nvsVars,
                 uartVars, timerVars, ethVars, sntpVars, component>>

Components == {"volumes", "tasks", "aws", "ota", "sensors", "i2c", "nvs", "uart",
               "timers", "eth", "sntp"}

\* of the components that stand still one initial state is enough
OneInitialState ==
  /\ component # "aws" => last_status = "success"
  /\ component # "ota" => image = CHOOSE v \in Versions : TRUE
  /\ component # "sensors" => max_num_devices = (CHOOSE n \in Counts : TRUE) /\ ~failed

WrappersInit ==
  /\ VolumesInit /\ TasksInit /\ AwsInit /\ OtaInit /\ SensorsInit /\ I2cInit
  /\ NvsInit /\ UartInit /\ TimersInit /\ EthInit /\ SntpInit
  /\ component \in Components
  /\ OneInitialState

WrappersNext ==
  \/ /\ component = "volumes" /\ VolumesNext
     /\ UNCHANGED <<taskVars, awsVars, otaVars, sensorVars, i2cVars, nvsVars, uartVars,
                    timerVars, ethVars, sntpVars, component>>
  \/ /\ component = "tasks" /\ TasksNext
     /\ UNCHANGED <<volumeVars, awsVars, otaVars, sensorVars, i2cVars, nvsVars, uartVars,
                    timerVars, ethVars, sntpVars, component>>
  \/ /\ component = "aws" /\ AwsNext
     /\ UNCHANGED <<volumeVars, taskVars, otaVars, sensorVars, i2cVars, nvsVars, uartVars,
                    timerVars, ethVars, sntpVars, component>>
  \/ /\ component = "ota" /\ OtaNext
     /\ UNCHANGED <<volumeVars, taskVars, awsVars, sensorVars, i2cVars, nvsVars, uartVars,
                    timerVars, ethVars, sntpVars, component>>
  \/ /\ component = "sensors" /\ SensorsNext
     /\ UNCHANGED <<volumeVars, taskVars, awsVars, otaVars, i2cVars, nvsVars, uartVars,
                    timerVars, ethVars, sntpVars, component>>
  \/ /\ component = "i2c" /\ I2cNext
     /\ UNCHANGED <<volumeVars, taskVars, awsVars, otaVars, sensorVars, nvsVars, uartVars,
                    timerVars, ethVars, sntpVars, component>>
  \/ /\ component = "nvs" /\ NvsNext
     /\ UNCHANGED <<volumeVars, taskVars, awsVars, otaVars, sensorVars, i2cVars, uartVars,
                    timerVars, ethVars, sntpVars, component>>
  \/ /\ component = "uart" /\ UartNext
     /\ UNCHANGED <<volumeVars, taskVars, awsVars, otaVars, sensorVars, i2cVars, nvsVars,
                    timerVars, ethVars, sntpVars, component>>
  \/ /\ component = "timers" /\ TimersNext
     /\ UNCHANGED <<volumeVars, taskVars, awsVars, otaVars, sensorVars, i2cVars, nvsVars,
                    uartVars, ethVars, sntpVars, component>>
  \/ /\ component = "eth" /\ EthNext
     /\ UNCHANGED <<volumeVars, taskVars, awsVars, otaVars, sensorVars, i2cVars, nvsVars,
                    uartVars, timerVars, sntpVars, component>>
  \/ /\ component = "sntp" /\ SntpNext
     /\ UNCHANGED <<volumeVars, taskVars, awsVars, otaVars, sensorVars, i2cVars, nvsVars,
                    uartVars, timerVars, ethVars, component>>

WrappersSpec == WrappersInit /\ [][WrappersNext]_wrapperVars /\ AwsFairness
=============================================================================
